---- MODULE Spec2Model ----
(***************************************************************************)
(* A model of the bytecode compiler of compiler/codegen/src/compile.rs.    *)
(*                                                                         *)
(* The Compiler struct is a record that the lowering routines thread: a    *)
(* routine `fn f(&mut self, x) -> CompileResult<()>` is the operator       *)
(* f(c, x), whose value is the Compiler after the call.  A returned Err is *)
(* the field `error`; the `?` of the source is the test Failed(c) that     *)
(* follows the call.  A panic (assert!, unwrap, unreachable!) is an error  *)
(* whose name starts with "panic".                                         *)
(*                                                                         *)
(* Indices (blocks, constants, names) are 0-based as in the source; the    *)
(* element with index i of a Vec or an IndexSet is element i + 1 of the    *)
(* sequence that models it.  Option<T> is a sequence of length 0 or 1.     *)
(***************************************************************************)
EXTENDS Integers, Sequences, FiniteSets, TLC

VARIABLES
    input,      \* the compile job: mode, options, AST body, symbol table
    compiler,   \* the Compiler struct
    pc,         \* position of the driver (compile_top and its callees)
    code,       \* Option<CodeObject>: the code object compile_top returned
    frame       \* the interpreter frame that runs `code`

vars == <<input, compiler, pc, code, frame>>

(***************************************************************************)
(* Bounds of the model.                                                    *)
(***************************************************************************)
MaxLoads == 3       \* constant loads per run of the constant-pool machine
MaxUses == 2        \* identifier uses per run of the name-resolution machine
MaxSteps == 40      \* instructions one interpreter run may execute

(***************************************************************************)
(* Helpers on sequences.                                                   *)
(***************************************************************************)
Some(x) == <<x>>
None == <<>>
Last(s) == s[Len(s)]
Front(s) == SubSeq(s, 1, Len(s) - 1)
Range(s) == {s[i] : i \in 1..Len(s)}

RECURSIVE SeqFilter(_, _)
SeqFilter(s, keep) ==
    IF s = <<>> THEN <<>>
    ELSE (IF Head(s) \in keep THEN <<Head(s)>> ELSE <<>>) \o SeqFilter(Tail(s), keep)

RECURSIVE Flatten(_)
Flatten(ss) == IF ss = <<>> THEN <<>> ELSE Head(ss) \o Flatten(Tail(ss))

(***************************************************************************)
(* IndexSet: an insertion-ordered set.  get_index_of gives the 0-based     *)
(* index of a member, insert_full the index of the value after inserting   *)
(* it if it was absent.                                                    *)
(***************************************************************************)
contains(set, v) == \E i \in 1..Len(set) : set[i] = v
get_index_of(set, v) == (CHOOSE i \in 1..Len(set) : set[i] = v) - 1
insert(set, v) == IF contains(set, v) THEN set ELSE Append(set, v)
insert_full(set, v) == get_index_of(insert(set, v), v)

(***************************************************************************)
(* The AST (ruff_python_ast).  A node is a record whose field k names its  *)
(* kind; the other fields are those of the ruff struct.                    *)
(***************************************************************************)
ExprName(id) == [k |-> "Name", id |-> id]
ExprNumberLiteral(i) == [k |-> "NumberLiteral", value |-> i]
ExprStringLiteral(s) == [k |-> "StringLiteral", value |-> s]
ExprBooleanLiteral(b) == [k |-> "BooleanLiteral", value |-> b]
ExprNoneLiteral == [k |-> "NoneLiteral"]
ExprEllipsisLiteral == [k |-> "EllipsisLiteral"]
ExprBoolOp(op, values) == [k |-> "BoolOp", op |-> op, values |-> values]
ExprUnaryOp(op, operand) == [k |-> "UnaryOp", op |-> op, operand |-> operand]
ExprBinOp(left, op, right) == [k |-> "BinOp", left |-> left, op |-> op, right |-> right]
ExprCompare(left, ops, comparators) ==
    [k |-> "Compare", left |-> left, ops |-> ops, comparators |-> comparators]
ExprYield(value) == [k |-> "Yield", value |-> value]
ExprYieldFrom(value) == [k |-> "YieldFrom", value |-> value]
ExprAwait(value) == [k |-> "Await", value |-> value]
ExprLambda(parameters, body) == [k |-> "Lambda", parameters |-> parameters, body |-> body]
ExprIf(test, body, orelse) == [k |-> "If", test |-> test, body |-> body, orelse |-> orelse]
ExprNamed(target, value) == [k |-> "Named", target |-> target, value |-> value]
ExprAttribute(value, attr) == [k |-> "Attribute", value |-> value, attr |-> attr]
ExprSubscript(value, slice) == [k |-> "Subscript", value |-> value, slice |-> slice]
ExprSlice(lower, upper, step) ==
    [k |-> "Slice", lower |-> lower, upper |-> upper, step |-> step]
ExprList(elts) == [k |-> "List", elts |-> elts]
ExprTuple(elts) == [k |-> "Tuple", elts |-> elts]
ExprSet(elts) == [k |-> "Set", elts |-> elts]
ExprDict(items) == [k |-> "Dict", items |-> items]
DictItem(key, value) == [key |-> key, value |-> value]
ExprStarred(value) == [k |-> "Starred", value |-> value]
ExprCall(func, arguments) == [k |-> "Call", func |-> func, arguments |-> arguments]
Arguments(args, keywords) == [args |-> args, keywords |-> keywords]
Keyword(arg, value) == [arg |-> arg, value |-> value]
Comprehension(target, iter, ifs, is_async) ==
    [target |-> target, iter |-> iter, ifs |-> ifs, is_async |-> is_async]
ExprListComp(elt, generators) == [k |-> "ListComp", elt |-> elt, generators |-> generators]
ExprSetComp(elt, generators) == [k |-> "SetComp", elt |-> elt, generators |-> generators]
ExprDictComp(key, value, generators) ==
    [k |-> "DictComp", key |-> key, value |-> value, generators |-> generators]
ExprGenerator(elt, generators) == [k |-> "Generator", elt |-> elt, generators |-> generators]
\* An f-string is its sequence of elements: a literal, or a replacement field
\* with its expression and its optional format spec (again elements).
ExprFString(elements) == [k |-> "FString", elements |-> elements]
FStringLiteralElement(s) == [k |-> "Literal", value |-> s]
FStringExpressionElement(expression, format_spec) ==
    [k |-> "Expression", expression |-> expression, format_spec |-> format_spec]

StmtExpr(value) == [k |-> "Expr", value |-> value]
StmtAssign(targets, value) == [k |-> "Assign", targets |-> targets, value |-> value]
StmtDelete(targets) == [k |-> "Delete", targets |-> targets]
StmtAugAssign(target, op, value) ==
    [k |-> "AugAssign", target |-> target, op |-> op, value |-> value]
StmtMatch(subject, cases) == [k |-> "Match", subject |-> subject, cases |-> cases]
MatchCase(pattern, guard, body) == [pattern |-> pattern, guard |-> guard, body |-> body]
PatternMatchValue(value) == [k |-> "MatchValue", value |-> value]
PatternMatchAs(pattern, name) == [k |-> "MatchAs", pattern |-> pattern, name |-> name]
PatternMatchSequence(patterns) == [k |-> "MatchSequence", patterns |-> patterns]
StmtPass == [k |-> "Pass"]
StmtBreak == [k |-> "Break"]
StmtContinue == [k |-> "Continue"]
StmtGlobal(names) == [k |-> "Global", names |-> names]
StmtReturn(value) == [k |-> "Return", value |-> value]
StmtRaise(exc, cause) == [k |-> "Raise", exc |-> exc, cause |-> cause]
StmtAssert(test, msg) == [k |-> "Assert", test |-> test, msg |-> msg]
ElifElseClause(test, body) == [test |-> test, body |-> body]
StmtIf(test, body, elif_else_clauses) ==
    [k |-> "If", test |-> test, body |-> body, elif_else_clauses |-> elif_else_clauses]
StmtWhile(test, body, orelse) ==
    [k |-> "While", test |-> test, body |-> body, orelse |-> orelse]
WithItem(context_expr, optional_vars) ==
    [context_expr |-> context_expr, optional_vars |-> optional_vars]
StmtWith(items, body, is_async) ==
    [k |-> "With", items |-> items, body |-> body, is_async |-> is_async]
StmtFor(target, iter, body, orelse, is_async) ==
    [k |-> "For", target |-> target, iter |-> iter, body |-> body, orelse |-> orelse,
     is_async |-> is_async]
ExceptHandler(type_, alias, body) == [type_ |-> type_, name |-> alias, body |-> body]
StmtTry(body, handlers, orelse, finalbody, is_star) ==
    [k |-> "Try", body |-> body, handlers |-> handlers, orelse |-> orelse,
     finalbody |-> finalbody, is_star |-> is_star]
Alias(id, asname) == [name |-> id, asname |-> asname]
StmtImportFrom(module, names, level) ==
    [k |-> "ImportFrom", module |-> module, names |-> names, level |-> level]
\* Parameters: each of posonlyargs, args, kwonlyargs is a sequence of
\* ParameterWithDefault; vararg and kwarg are Option<Parameter>.  The inputs of
\* the model carry no annotations and no type parameters.
Parameter(id) == [name |-> id]
ParameterWithDefault(id, default) == [parameter |-> Parameter(id), default |-> default]
Parameters(posonlyargs, args, vararg, kwonlyargs, kwarg) ==
    [posonlyargs |-> posonlyargs, args |-> args, vararg |-> vararg,
     kwonlyargs |-> kwonlyargs, kwarg |-> kwarg]
NoParameters == Parameters(<<>>, <<>>, None, <<>>, None)
StmtFunctionDef(id, parameters, body, decorator_list, is_async) ==
    [k |-> "FunctionDef", name |-> id, parameters |-> parameters, body |-> body,
     decorator_list |-> decorator_list, is_async |-> is_async]
StmtClassDef(id, body, decorator_list, arguments) ==
    [k |-> "ClassDef", name |-> id, body |-> body, decorator_list |-> decorator_list,
     arguments |-> arguments]

(***************************************************************************)
(* ir::BlockIdx::NULL, ir::Block, ir::InstructionInfo.                     *)
(* An instruction carries its opcode, its integer argument, the block it   *)
(* jumps to (NULL when it does not jump) and, in `sub`, the enum operand   *)
(* of the opcodes that have one (comparison operator, raise kind, ...).    *)
(***************************************************************************)
NULL == -1

NewBlock == [instructions |-> <<>>, next |-> NULL]

InstructionInfo(op, arg, target, sub) ==
    [op |-> op, arg |-> arg, target |-> target, sub |-> sub]

(***************************************************************************)
(* ConstantData.                                                           *)
(***************************************************************************)
ConstNone == [t |-> "None"]
ConstEllipsis == [t |-> "Ellipsis"]
ConstBoolean(b) == [t |-> "Boolean", b |-> b]
ConstInteger(i) == [t |-> "Integer", i |-> i]
ConstStr(s) == [t |-> "Str", s |-> s]
ConstTuple(elements) == [t |-> "Tuple", elements |-> elements]
ConstCode(co) == [t |-> "Code", code |-> co]

(***************************************************************************)
(* CompileContext, FunctionContext.                                        *)
(***************************************************************************)
CompileContext(loop_data, in_class, func) ==
    [loop_data |-> loop_data, in_class |-> in_class, func |-> func]

in_func(ctx) == ctx.func # "NoFunction"

(***************************************************************************)
(* The symbol table (external): a tree of tables, each with its symbols in *)
(* insertion order and its child tables in traversal order.                *)
(***************************************************************************)
Symbol(name, scope, flags) == [name |-> name, scope |-> scope, flags |-> flags]

SymbolTable(typ, symbols, sub_tables) ==
    [typ |-> typ, symbols |-> symbols, sub_tables |-> sub_tables]

has_symbol(table, name) == \E i \in 1..Len(table.symbols) : table.symbols[i].name = name

lookup(table, name) ==
    table.symbols[CHOOSE i \in 1..Len(table.symbols) : table.symbols[i].name = name]

(***************************************************************************)
(* symboltable::mangle_name: inside a class, a private name (two leading   *)
(* underscores, not a dunder) gets the class name prefixed.  The private   *)
(* names of the model are the members of PrivateNames.                     *)
(***************************************************************************)
PrivateNames == {"__p"}

mangle_name(class_name, name) ==
    IF class_name = None \/ name \notin PrivateNames THEN name
    ELSE "_" \o class_name[1] \o name

(***************************************************************************)
(* Compiler::new: the module code unit and the initial driver state.       *)
(***************************************************************************)
NoError == "none"
Failed(c) == c.error # NoError

CodeInfo(flags, posonlyarg_count, arg_count, kwonlyarg_count, obj_name, cellvar_cache, freevar_cache) ==
    [flags |-> flags,
     posonlyarg_count |-> posonlyarg_count,
     arg_count |-> arg_count,
     kwonlyarg_count |-> kwonlyarg_count,
     obj_name |-> obj_name,
     blocks |-> <<NewBlock>>,
     current_block |-> 0,
     constants |-> <<>>,
     name_cache |-> <<>>,
     varname_cache |-> <<>>,
     cellvar_cache |-> cellvar_cache,
     freevar_cache |-> freevar_cache]

new(opts, code_name) ==
    [code_stack |-> <<CodeInfo({"NEW_LOCALS"}, 0, 0, 0, code_name, <<>>, <<>>)>>,
     symbol_table_stack |-> <<>>,
     qualified_path |-> <<>>,
     done_with_future_stmts |-> "No",
     future_annotations |-> FALSE,
     ctx |-> CompileContext(None, FALSE, "NoFunction"),
     class_name |-> None,
     opts |-> opts,
     error |-> NoError,
     raised |-> <<>>,
     next_changes |-> <<>>,
     ctx_log |-> <<>>,
     scope_log |-> <<>>]

\* The first error or panic ends the compile: it is kept, and nothing changes
\* the code units afterwards.  `raised` records the errors in the order in
\* which self.error constructed them.  `next_changes` records every write to
\* a block's `next` that replaces one block by a different one.  `ctx_log`
\* has one entry for every code unit popped: the flags of the unit, `inside`
\* is self.ctx when the unit is popped, and `before` and `after` are the
\* `prev_ctx` its construct saved and self.ctx once the construct has
\* assigned `self.ctx = prev_ctx`.  `scope_log` has one entry for every code
\* unit pushed: its name, the depth of the code stack it was pushed on, and
\* the symbol table push_symbol_table gave it.
error(c, e) == IF Failed(c) THEN c ELSE [c EXCEPT !.error = e, !.raised = Append(@, e)]

(***************************************************************************)
(* Low level helper functions.                                             *)
(***************************************************************************)
current_code_info(c) == Last(c.code_stack)

set_code_info(c, info) ==
    IF Failed(c) THEN c ELSE [c EXCEPT !.code_stack[Len(c.code_stack)] = info]

current_block(c) ==
    LET info == current_code_info(c) IN info.blocks[info.current_block + 1]

(***************************************************************************)
(* A method call on the compiler.  self_f(c, ...) stands for self.f(...)   *)
(* of the source; self dispatches on the name of the method, so that every *)
(* call among the routines below is a call of one recursive operator.      *)
(***************************************************************************)
RECURSIVE self(_, _)

self__emit(c, op, arg, target, sub) == self("_emit", <<c, op, arg, target, sub>>)
self_emit_no_arg(c, op) == self("emit_no_arg", <<c, op>>)
self_emit_arg(c, op, arg) == self("emit_arg", <<c, op, arg>>)
self_emit_sub(c, op, sub) == self("emit_sub", <<c, op, sub>>)
self_emit_target(c, op, target) == self("emit_target", <<c, op, target>>)
self_arg_constant(c, constant) == self("arg_constant", <<c, constant>>)
self_emit_load_const(c, constant) == self("emit_load_const", <<c, constant>>)
self_emit_return_const(c, constant) == self("emit_return_const", <<c, constant>>)
self_emit_return_value(c) == self("emit_return_value", <<c>>)
self_new_block(c) == self("new_block", <<c>>)
self_switch_to_block(c, block) == self("switch_to_block", <<c, block>>)
self_mark_generator(c) == self("mark_generator", <<c>>)
self_mangle(c, name) == self("mangle", <<c, name>>)
self__name_inner(c, name, cache) == self("_name_inner", <<c, name, cache>>)
self_name(c, n) == self("name", <<c, n>>)
self_emit_name(c, op, n) == self("emit_name", <<c, op, n>>)
self_varname(c, n) == self("varname", <<c, n>>)
self_push_symbol_table(c) == self("push_symbol_table", <<c>>)
self_pop_symbol_table(c) == self("pop_symbol_table", <<c>>)
self_push_output(c, flags, posonlyarg_count, arg_count, kwonlyarg_count, obj_name) == self("push_output", <<c, flags, posonlyarg_count, arg_count, kwonlyarg_count, obj_name>>)
self_pop_code_object(c) == self("pop_code_object", <<c>>)
self_check_forbidden_name(c, id, usage) == self("check_forbidden_name", <<c, id, usage>>)
self_compile_name(c, id, usage) == self("compile_name", <<c, id, usage>>)
self_load_name(c, id) == self("load_name", <<c, id>>)
self_store_name(c, id) == self("store_name", <<c, id>>)
self_set_ctx(c, ctx) == self("set_ctx", <<c, ctx>>)
self_compile_op(c, op, inplace) == self("compile_op", <<c, op, inplace>>)
self_compile_cmpop(c, op) == self("compile_cmpop", <<c, op>>)
self_compile_mid_comparisons(c, mid_ops, mid_exprs, end_blocks) == self("compile_mid_comparisons", <<c, mid_ops, mid_exprs, end_blocks>>)
self_compile_chained_comparison(c, left, ops, exprs) == self("compile_chained_comparison", <<c, left, ops, exprs>>)
self_compile_bool_values(c, op, values, after_block) == self("compile_bool_values", <<c, op, values, after_block>>)
self_compile_bool_op(c, op, values) == self("compile_bool_op", <<c, op, values>>)
self_compile_jump_if_each(c, values, condition, target_block) == self("compile_jump_if_each", <<c, values, condition, target_block>>)
self_compile_jump_if(c, expression, condition, target_block) == self("compile_jump_if", <<c, expression, condition, target_block>>)
self_compile_expressions(c, exprs) == self("compile_expressions", <<c, exprs>>)
self_compile_kw_defaults(c, kw_with_defaults) == self("compile_kw_defaults", <<c, kw_with_defaults>>)
self_varnames(c, ids) == self("varnames", <<c, ids>>)
self_set_flag(c, flag, on) == self("set_flag", <<c, flag, on>>)
self_enter_function(c, fname, parameters) == self("enter_function", <<c, fname, parameters>>)
self_load_closures(c, freevars) == self("load_closures", <<c, freevars>>)
self_build_closure(c, co) == self("build_closure", <<c, co>>)
self_compile_lambda(c, parameters, body) == self("compile_lambda", <<c, parameters, body>>)
self_compile_expression(c, expression) == self("compile_expression", <<c, expression>>)
self_compile_store(c, target) == self("compile_store", <<c, target>>)
self_compile_delete(c, expression) == self("compile_delete", <<c, expression>>)
self_load_docstring(c, doc_str) == self("load_docstring", <<c, doc_str>>)
self_prepare_decorators(c, decorator_list) == self("prepare_decorators", <<c, decorator_list>>)
self_apply_decorators(c, decorator_list) == self("apply_decorators", <<c, decorator_list>>)
self_future_features(c, features) == self("future_features", <<c, features>>)
self_compile_future_features(c, features) == self("compile_future_features", <<c, features>>)
self_import_from_names(c, names) == self("import_from_names", <<c, names>>)
self_compile_import_from(c, level, module, names) == self("compile_import_from", <<c, level, module, names>>)
self_compile_elif_clauses(c, rest, next_block, after_block) == self("compile_elif_clauses", <<c, rest, next_block, after_block>>)
self_compile_if(c, test, body, elif_else_clauses) == self("compile_if", <<c, test, body, elif_else_clauses>>)
self_set_loop_data(c, loop_data) == self("set_loop_data", <<c, loop_data>>)
self_compile_while(c, test, body, orelse) == self("compile_while", <<c, test, body, orelse>>)
self_compile_for(c, target, iter, body, orelse, is_async) == self("compile_for", <<c, target, iter, body, orelse, is_async>>)
self_compile_try_handlers(c, handlers, finally_block, has_finalbody) == self("compile_try_handlers", <<c, handlers, finally_block, has_finalbody>>)
self_compile_try_statement(c, body, handlers, orelse, finalbody) == self("compile_try_statement", <<c, body, handlers, orelse, finalbody>>)
self_compile_try_star_statement(c, body, handlers, orelse, finalbody) == self("compile_try_star_statement", <<c, body, handlers, orelse, finalbody>>)
self_push_qualified_path(c, id) == self("push_qualified_path", <<c, id>>)
self_pop_qualified_path(c) == self("pop_qualified_path", <<c>>)
self_compile_function_def(c, fname, parameters, body, decorator_list, is_async) == self("compile_function_def", <<c, fname, parameters, body, decorator_list, is_async>>)
self_compile_class_def(c, cname, body, decorator_list, arguments) == self("compile_class_def", <<c, cname, body, decorator_list, arguments>>)
self_compile_assign_targets(c, targets) == self("compile_assign_targets", <<c, targets>>)
self_compile_delete_targets(c, targets) == self("compile_delete_targets", <<c, targets>>)
self_compile_raise(c, exc, cause) == self("compile_raise", <<c, exc, cause>>)
self_compile_assert(c, test, msg) == self("compile_assert", <<c, test, msg>>)
self_compile_return(c, value) == self("compile_return", <<c, value>>)
self_track_future_stmts(c, statement) == self("track_future_stmts", <<c, statement>>)
self_compile_statement(c, statement) == self("compile_statement", <<c, statement>>)
self_compile_statements(c, statements) == self("compile_statements", <<c, statements>>)
self_compile_program_begin(c, body, symbol_table) == self("compile_program_begin", <<c, body, symbol_table>>)
self_compile_comprehension_element(c, element) == self("compile_comprehension_element", <<c, element>>)
self_compile_element(c, expression) == self("compile_element", <<c, expression>>)
self_comprehension_loop(c, generator, loop_block, after_block) == self("comprehension_loop", <<c, generator, loop_block, after_block>>)
self_comprehension_loops(c, generators, loop_labels, arg0) == self("comprehension_loops", <<c, generators, loop_labels, arg0>>)
self_comprehension_ends(c, loop_labels, has_an_async_gen) == self("comprehension_ends", <<c, loop_labels, has_an_async_gen>>)
self_comprehension_body(c, init_collection, generators, expression, has_an_async_gen) == self("comprehension_body", <<c, init_collection, generators, expression, has_an_async_gen>>)
self_comprehension_call(c, prev_ctx, comp_name, generators, has_an_async_gen, is_async_list_set_dict_comprehension) == self("comprehension_call", <<c, prev_ctx, comp_name, generators, has_an_async_gen, is_async_list_set_dict_comprehension>>)
self_compile_comprehension(c, comp_name, init_collection, generators, expression, comprehension_type, element_contains_await) == self("compile_comprehension", <<c, comp_name, init_collection, generators, expression, comprehension_type, element_contains_await>>)
self_comprehension_arm(c, expression) == self("comprehension_arm", <<c, expression>>)
self_gather_runs(c, elements, size) == self("gather_runs", <<c, elements, size>>)
self_gather_elements(c, before, elements) == self("gather_elements", <<c, before, elements>>)
self_compile_keyword_items(c, sub_keywords) == self("compile_keyword_items", <<c, sub_keywords>>)
self_compile_keyword_groups(c, keywords, size) == self("compile_keyword_groups", <<c, keywords, size>>)
self_compile_keywords(c, keywords) == self("compile_keywords", <<c, keywords>>)
self_check_keyword_names(c, keywords) == self("check_keyword_names", <<c, keywords>>)
self_compile_call_kind(c, count, size, unpack, keywords) == self("compile_call_kind", <<c, count, size, unpack, keywords>>)
self_compile_call_inner(c, additional_positional, arguments) == self("compile_call_inner", <<c, additional_positional, arguments>>)
self_compile_normal_call(c, ty) == self("compile_normal_call", <<c, ty>>)
self_compile_method_call(c, ty) == self("compile_method_call", <<c, ty>>)
self_compile_call(c, func, args) == self("compile_call", <<c, func, args>>)
self_compile_augassign_load(c, target) == self("compile_augassign_load", <<c, target>>)
self_compile_augassign_store(c, target) == self("compile_augassign_store", <<c, target>>)
self_compile_augassign(c, target, op, value) == self("compile_augassign", <<c, target, op, value>>)
self_compile_pattern_value(c, value, pattern_context) == self("compile_pattern_value", <<c, value, pattern_context>>)
self_compile_pattern_as(c, as_pattern, pattern_context) == self("compile_pattern_as", <<c, as_pattern, pattern_context>>)
self_compile_pattern_inner(c, pattern_type, pattern_context) == self("compile_pattern_inner", <<c, pattern_type, pattern_context>>)
self_compile_pattern(c, pattern_type, pattern_context) == self("compile_pattern", <<c, pattern_type, pattern_context>>)
self_new_blocks(c, n) == self("new_blocks", <<c, n>>)
self_compile_match_cases(c, cases, i, blocks) == self("compile_match_cases", <<c, cases, i, blocks>>)
self_link_match_blocks(c, blocks) == self("link_match_blocks", <<c, blocks>>)
self_compile_match_inner(c, subject, cases, pattern_context) == self("compile_match_inner", <<c, subject, cases, pattern_context>>)
self_compile_match(c, subject, cases) == self("compile_match", <<c, subject, cases>>)
self_compile_with(c, items, body, is_async) == self("compile_with", <<c, items, body, is_async>>)
self_compile_single_statements(c, body) == self("compile_single_statements", <<c, body>>)
self_compile_program_single(c, body, symbol_table) == self("compile_program_single", <<c, body, symbol_table>>)
self_compile_block_expr(c, body, symbol_table) == self("compile_block_expr", <<c, body, symbol_table>>)
self_compile_eval(c, expression, symbol_table) == self("compile_eval", <<c, expression, symbol_table>>)
self_compile_program_end(c, size_before) == self("compile_program_end", <<c, size_before>>)

_emit(c, op, arg, target, sub) ==
    LET info == current_code_info(c)
        b == info.current_block + 1
    IN set_code_info(c,
         [info EXCEPT !.blocks[b].instructions =
                          Append(@, InstructionInfo(op, arg, target, sub))])

emit_no_arg(c, op) == self__emit(c, op, 0, NULL, "")
emit_arg(c, op, arg) == self__emit(c, op, arg, NULL, "")
emit_sub(c, op, sub) == self__emit(c, op, 0, NULL, sub)
emit_target(c, op, target) == self__emit(c, op, 0, target, "")

\* arg_constant with a fault: the constant is appended without a lookup.
arg_constant_appending(c, constant) ==
    LET info == current_code_info(c)
    IN [c |-> set_code_info(c, [info EXCEPT !.constants = Append(@, constant)]),
        idx |-> Len(info.constants)]

arg_constant(c, constant) ==
    LET info == current_code_info(c)
    IN [c |-> set_code_info(c, [info EXCEPT !.constants = insert(@, constant)]),
        idx |-> insert_full(info.constants, constant)]

emit_load_const(c, constant) ==
    LET r == self_arg_constant(c, constant) IN self_emit_arg(r.c, "LoadConst", r.idx)

emit_return_const(c, constant) ==
    LET r == self_arg_constant(c, constant) IN self_emit_arg(r.c, "ReturnConst", r.idx)

emit_return_value(c) ==
    LET info == current_code_info(c)
        b == info.current_block + 1
        ins == info.blocks[b].instructions
    IN IF ins # <<>> /\ Last(ins).op = "LoadConst"
       THEN set_code_info(c,
              [info EXCEPT !.blocks[b].instructions[Len(ins)].op = "ReturnConst"])
       ELSE self_emit_no_arg(c, "ReturnValue")

new_block(c) ==
    LET info == current_code_info(c)
    IN [c |-> set_code_info(c, [info EXCEPT !.blocks = Append(@, NewBlock)]),
        idx |-> Len(info.blocks)]

switch_to_block(c, block) ==
    LET info == current_code_info(c)
        prev == info.current_block
    IN IF prev = block THEN error(c, "panic: recursive switching")
       ELSE IF info.blocks[block + 1].next # NULL
       THEN error(c, "panic: switching to completed block")
       ELSE IF info.blocks[prev + 1].next # NULL
       THEN error(c, "panic: switching from block that's already got a next")
       ELSE set_code_info(c, [info EXCEPT !.blocks[prev + 1].next = block,
                                          !.current_block = block])

mark_generator(c) ==
    LET info == current_code_info(c)
    IN set_code_info(c, [info EXCEPT !.flags = @ \cup {"IS_GENERATOR"}])

mangle(c, name) == mangle_name(c.class_name, name)

_name_inner(c, name, cache) ==
    LET info == current_code_info(c)
        mangled == self_mangle(c, name)
    IN [c |-> set_code_info(c, [info EXCEPT ![cache] = insert(@, mangled)]),
        idx |-> insert_full(info[cache], mangled)]

name(c, n) == self__name_inner(c, n, "name_cache")

\* `let idx = self.name(n); emit!(self, Instruction::<op>(idx))`
emit_name(c, op, n) == LET r == self_name(c, n) IN self_emit_arg(r.c, op, r.idx)

is_forbidden_name(n) == n \in {"__debug__"}

is_forbidden_arg_name(n) == is_forbidden_name(n)

varname(c, n) ==
    IF is_forbidden_arg_name(n)
    THEN [c |-> error(c, "SyntaxError: cannot assign to"), idx |-> NULL]
    ELSE self__name_inner(c, n, "varname_cache")

(***************************************************************************)
(* CodeInfo::finalize_code: the blocks reached from block 0 by `next`      *)
(* links, concatenated; a jump's block reference becomes the offset of the *)
(* block's first instruction in the flattened stream.  A block that the    *)
(* links do not reach has no offset (NULL).                                *)
(***************************************************************************)
RECURSIVE iter_blocks(_, _, _)
iter_blocks(blocks, idx, fuel) ==
    IF idx = NULL \/ fuel = 0 THEN <<>>
    ELSE <<idx>> \o iter_blocks(blocks, blocks[idx + 1].next, fuel - 1)

RECURSIVE offset_before(_, _, _)
offset_before(blocks, order, k) ==
    IF k = 1 THEN 0
    ELSE offset_before(blocks, order, k - 1)
         + Len(blocks[order[k - 1] + 1].instructions)

block_to_offset(blocks, order, target) ==
    IF \E k \in 1..Len(order) : order[k] = target
    THEN offset_before(blocks, order, CHOOSE k \in 1..Len(order) : order[k] = target)
    ELSE NULL

finalize_instruction(blocks, order, info) ==
    [op |-> info.op,
     arg |-> IF info.target # NULL THEN block_to_offset(blocks, order, info.target)
             ELSE info.arg,
     sub |-> info.sub]

finalize_code(info) ==
    LET order == iter_blocks(info.blocks, 0, Len(info.blocks))
        run(k) == [i \in 1..Len(info.blocks[order[k] + 1].instructions) |->
                      finalize_instruction(info.blocks, order,
                                           info.blocks[order[k] + 1].instructions[i])]
    IN [instructions |-> Flatten([k \in 1..Len(order) |-> run(k)]),
        constants |-> info.constants,
        names |-> info.name_cache,
        varnames |-> info.varname_cache,
        cellvars |-> info.cellvar_cache,
        freevars |-> info.freevar_cache,
        flags |-> info.flags,
        posonlyarg_count |-> info.posonlyarg_count,
        arg_count |-> info.arg_count,
        kwonlyarg_count |-> info.kwonlyarg_count,
        obj_name |-> info.obj_name]

(***************************************************************************)
(* The stacks of symbol tables and of code units.                          *)
(***************************************************************************)
push_symbol_table(c) ==
    IF c.symbol_table_stack = <<>> \/ Last(c.symbol_table_stack).sub_tables = <<>>
    THEN error(c, "panic: no next symbol table")
    ELSE LET n == Len(c.symbol_table_stack)
             table == Head(c.symbol_table_stack[n].sub_tables)
         IN [c EXCEPT !.symbol_table_stack =
                Append([@ EXCEPT ![n].sub_tables = Tail(@)], table)]

pop_symbol_table(c) ==
    IF c.symbol_table_stack = <<>> THEN error(c, "panic: compiler bug")
    ELSE [c EXCEPT !.symbol_table_stack = Front(@)]

scope_names(table, scopes, flag) ==
    LET keep == {i \in 1..Len(table.symbols) :
                    \/ table.symbols[i].scope \in scopes
                    \/ flag \in table.symbols[i].flags}
        pick(s) == [i \in 1..Len(s) |-> s[i].name]
    IN pick(SeqFilter(table.symbols, {table.symbols[i] : i \in keep}))

push_output(c, flags, posonlyarg_count, arg_count, kwonlyarg_count, obj_name) ==
    LET c1 == self_push_symbol_table(c)
    IN IF Failed(c1) THEN c1
       ELSE LET table == Last(c1.symbol_table_stack)
                cellvar_cache == scope_names(table, {"Cell"}, "")
                freevar_cache == scope_names(table, {"Free"}, "FREE_CLASS")
                info == CodeInfo(flags, posonlyarg_count, arg_count, kwonlyarg_count,
                                 obj_name, cellvar_cache, freevar_cache)
            IN [c1 EXCEPT !.code_stack = Append(@, info),
                          !.scope_log = Append(@, [name |-> obj_name,
                                                   depth |-> Len(c1.code_stack),
                                                   table |-> table])]

pop_code_object(c) ==
    LET c1 == self_pop_symbol_table(c)
    IN IF Failed(c1) THEN [c |-> c1, code |-> None]
       ELSE IF Last(c.symbol_table_stack).sub_tables # <<>>
       THEN [c |-> error(c1, "panic: assertion failed: table.sub_tables.is_empty()"),
             code |-> None]
       ELSE [c |-> [c1 EXCEPT !.code_stack = Front(@),
                              !.ctx_log = Append(@, [kind |-> "module",
                                                     flags |-> Last(c1.code_stack).flags,
                                                     before |-> c.ctx,
                                                     inside |-> c.ctx,
                                                     after |-> c.ctx])],
             code |-> Some(finalize_code(Last(c1.code_stack)))]

\* the entry of ctx_log of the code unit popped last, completed by the
\* construct that popped it, after its `self.ctx = prev_ctx`
leave_scope(c, kind, prev_ctx) ==
    IF Failed(c) \/ c.ctx_log = <<>> THEN c
    ELSE LET n == Len(c.ctx_log)
         IN [c EXCEPT !.ctx_log[n].kind = kind,
                      !.ctx_log[n].before = prev_ctx,
                      !.ctx_log[n].after = c.ctx]

(***************************************************************************)
(* Name resolution.                                                        *)
(***************************************************************************)
\* check_forbidden_name with a fault: deletions are let through.
check_forbidden_name_store_only(c, id, usage) ==
    IF usage = "Store" /\ is_forbidden_name(id)
    THEN error(c, "SyntaxError: cannot assign to")
    ELSE c

check_forbidden_name(c, id, usage) ==
    IF usage = "Store" /\ is_forbidden_name(id)
    THEN error(c, "SyntaxError: cannot assign to")
    ELSE IF usage = "Delete" /\ is_forbidden_name(id)
    THEN error(c, "SyntaxError: cannot delete")
    ELSE c

\* NameOpType with a fault: a name bound at module or class level is given
\* the global instructions.
NameOpType_local_as_global(symbol, ctx) ==
    CASE symbol.scope = "Local" /\ in_func(ctx) -> "Fast"
      [] symbol.scope = "GlobalExplicit" -> "Global"
      [] symbol.scope \in {"GlobalImplicit", "Unknown"} /\ in_func(ctx) -> "Global"
      [] symbol.scope \in {"GlobalImplicit", "Unknown"} /\ ~in_func(ctx) -> "Local"
      [] symbol.scope = "Local" /\ ~in_func(ctx) -> "Global"
      [] symbol.scope = "Free" -> "Deref"
      [] symbol.scope = "Cell" -> "Deref"

NameOpType(symbol, ctx) ==
    CASE symbol.scope = "Local" /\ in_func(ctx) -> "Fast"
      [] symbol.scope = "GlobalExplicit" -> "Global"
      [] symbol.scope \in {"GlobalImplicit", "Unknown"} /\ in_func(ctx) -> "Global"
      [] symbol.scope \in {"GlobalImplicit", "Unknown"} /\ ~in_func(ctx) -> "Local"
      [] symbol.scope = "Local" /\ ~in_func(ctx) -> "Local"
      [] symbol.scope = "Free" -> "Deref"
      [] symbol.scope = "Cell" -> "Deref"

\* NameCache with a fault: the local of a function is interned among the
\* names instead of the fast locals.
NameCache_without_varnames(symbol, ctx) ==
    CASE symbol.scope = "Local" /\ in_func(ctx) -> "name_cache"
      [] symbol.scope = "Free" -> "freevar_cache"
      [] symbol.scope = "Cell" -> "cellvar_cache"
      [] OTHER -> "name_cache"

NameCache(symbol, ctx) ==
    CASE symbol.scope = "Local" /\ in_func(ctx) -> "varname_cache"
      [] symbol.scope = "Free" -> "freevar_cache"
      [] symbol.scope = "Cell" -> "cellvar_cache"
      [] OTHER -> "name_cache"

NameOp(op_typ, usage, ctx) ==
    CASE op_typ = "Fast" ->
           (CASE usage = "Load" -> "LoadFast"
              [] usage = "Store" -> "StoreFast"
              [] usage = "Delete" -> "DeleteFast")
      [] op_typ = "Global" ->
           (CASE usage = "Load" -> "LoadGlobal"
              [] usage = "Store" -> "StoreGlobal"
              [] usage = "Delete" -> "DeleteGlobal")
      [] op_typ = "Deref" ->
           (CASE usage = "Load" /\ ~in_func(ctx) /\ ctx.in_class -> "LoadClassDeref"
              [] usage = "Load" /\ ~(~in_func(ctx) /\ ctx.in_class) -> "LoadDeref"
              [] usage = "Store" -> "StoreDeref"
              [] usage = "Delete" -> "DeleteDeref")
      [] op_typ = "Local" ->
           (CASE usage = "Load" -> "LoadNameAny"
              [] usage = "Store" -> "StoreLocal"
              [] usage = "Delete" -> "DeleteLocal")

\* compile_name with a fault: the index of a free variable is not offset by
\* the number of cell variables.
compile_name_without_cell_offset(c, id, usage) ==
    LET mangled == self_mangle(c, id)
        c1 == self_check_forbidden_name(c, mangled, usage)
    IN IF Failed(c1) THEN c1
       ELSE IF c.symbol_table_stack = <<>>
               \/ ~has_symbol(Last(c.symbol_table_stack), mangled)
       THEN error(c, "panic: the symbol should be present in the symbol table")
       ELSE LET symbol == lookup(Last(c.symbol_table_stack), mangled)
                info == current_code_info(c)
                op_typ == NameOpType(symbol, c.ctx)
                cache == NameCache(symbol, c.ctx)
            IN IF usage = "Load" /\ mangled = "__debug__"
               THEN self_emit_load_const(c, ConstBoolean(c.opts.optimize = 0))
               ELSE LET found == insert_full(info[cache], mangled)
                        idx == IF symbol.scope = "Free"
                               THEN found
                               ELSE found
                        c2 == set_code_info(c, [info EXCEPT ![cache] = insert(@, mangled)])
                    IN self_emit_arg(c2, NameOp(op_typ, usage, c.ctx), idx)

compile_name(c, id, usage) ==
    LET mangled == self_mangle(c, id)
        c1 == self_check_forbidden_name(c, mangled, usage)
    IN IF Failed(c1) THEN c1
       ELSE IF c.symbol_table_stack = <<>>
               \/ ~has_symbol(Last(c.symbol_table_stack), mangled)
       THEN error(c, "panic: the symbol should be present in the symbol table")
       ELSE LET symbol == lookup(Last(c.symbol_table_stack), mangled)
                info == current_code_info(c)
                op_typ == NameOpType(symbol, c.ctx)
                cache == NameCache(symbol, c.ctx)
            IN IF usage = "Load" /\ mangled = "__debug__"
               THEN self_emit_load_const(c, ConstBoolean(c.opts.optimize = 0))
               ELSE LET found == insert_full(info[cache], mangled)
                        idx == IF symbol.scope = "Free"
                               THEN found + Len(info.cellvar_cache)
                               ELSE found
                        c2 == set_code_info(c, [info EXCEPT ![cache] = insert(@, mangled)])
                    IN self_emit_arg(c2, NameOp(op_typ, usage, c.ctx), idx)

load_name(c, id) == self_compile_name(c, id, "Load")

store_name(c, id) == self_compile_name(c, id, "Store")

(***************************************************************************)
(* Compiler::contains_await.                                               *)
(***************************************************************************)
RECURSIVE contains_await(_), expr_element_contains_await(_)

\* Option<Box<Expr>>::is_some_and(contains_await)
is_some_and_contains_await(opt) == opt # None /\ contains_await(opt[1])

any_contains_await(exprs) == \E i \in 1..Len(exprs) : contains_await(exprs[i])

expr_element_contains_await(expr_element) ==
    \/ contains_await(expr_element.expression)
    \/ \E s \in 1..Len(expr_element.format_spec) :
         \E i \in 1..Len(expr_element.format_spec[s]) :
            /\ expr_element.format_spec[s][i].k = "Expression"
            /\ expr_element_contains_await(expr_element.format_spec[s][i])

contains_await(expression) ==
    CASE expression.k = "Call" ->
           \/ contains_await(expression.func)
           \/ any_contains_await(expression.arguments.args)
           \/ \E i \in 1..Len(expression.arguments.keywords) :
                contains_await(expression.arguments.keywords[i].value)
      [] expression.k = "BoolOp" -> any_contains_await(expression.values)
      [] expression.k = "BinOp" ->
           contains_await(expression.left) \/ contains_await(expression.right)
      [] expression.k = "Subscript" ->
           contains_await(expression.value) \/ contains_await(expression.slice)
      [] expression.k = "UnaryOp" -> contains_await(expression.operand)
      [] expression.k = "Attribute" -> contains_await(expression.value)
      [] expression.k = "Compare" ->
           contains_await(expression.left) \/ any_contains_await(expression.comparators)
      [] expression.k \in {"List", "Tuple", "Set"} -> any_contains_await(expression.elts)
      [] expression.k = "Dict" ->
           \E i \in 1..Len(expression.items) :
              is_some_and_contains_await(expression.items[i].key)
      [] expression.k = "Slice" ->
           \/ is_some_and_contains_await(expression.lower)
           \/ is_some_and_contains_await(expression.upper)
           \/ is_some_and_contains_await(expression.step)
      [] expression.k = "Yield" -> is_some_and_contains_await(expression.value)
      [] expression.k = "Await" -> TRUE
      [] expression.k = "YieldFrom" -> contains_await(expression.value)
      [] expression.k = "Name" -> FALSE
      [] expression.k = "Lambda" -> contains_await(expression.body)
      [] expression.k \in {"ListComp", "SetComp", "Generator"} ->
           \/ contains_await(expression.elt)
           \/ \E i \in 1..Len(expression.generators) :
                contains_await(expression.generators[i].iter)
      [] expression.k = "DictComp" ->
           \/ contains_await(expression.key)
           \/ contains_await(expression.value)
           \/ \E i \in 1..Len(expression.generators) :
                contains_await(expression.generators[i].iter)
      [] expression.k = "Starred" -> contains_await(expression.value)
      [] expression.k = "If" ->
           \/ contains_await(expression.test)
           \/ contains_await(expression.body)
           \/ contains_await(expression.orelse)
      [] expression.k = "Named" ->
           contains_await(expression.target) \/ contains_await(expression.value)
      [] expression.k = "FString" ->
           \E i \in 1..Len(expression.elements) :
              /\ expression.elements[i].k = "Expression"
              /\ expr_element_contains_await(expression.elements[i])
      [] expression.k \in {"StringLiteral", "BytesLiteral", "NumberLiteral",
                           "BooleanLiteral", "NoneLiteral", "EllipsisLiteral"} -> FALSE

(***************************************************************************)
(* The lowering routines.  They call each other recursively, as in the     *)
(* source.                                                                 *)
(***************************************************************************)
RECURSIVE compile_statements(_, _), compile_statement(_, _),
          compile_expression(_, _), compile_jump_if(_, _, _, _),
          compile_store(_, _), compile_delete(_, _)

set_ctx(c, ctx) == IF Failed(c) THEN c ELSE [c EXCEPT !.ctx = ctx]

\* bytecode::MakeFunctionFlags, a bit set, as the instruction's argument.
MakeFunctionFlag(f) ==
    CASE f = "CLOSURE" -> 1
      [] f = "ANNOTATIONS" -> 2
      [] f = "KW_ONLY_DEFAULTS" -> 4
      [] f = "DEFAULTS" -> 8
      [] f = "TYPE_PARAMS" -> 16

RECURSIVE flag_bits(_)
flag_bits(flags) ==
    IF flags = {} THEN 0
    ELSE LET f == CHOOSE x \in flags : TRUE
         IN MakeFunctionFlag(f) + flag_bits(flags \ {f})

compile_op(c, op, inplace) ==
    LET bop == CASE op = "Add" -> "Add"
                 [] op = "Sub" -> "Subtract"
                 [] op = "Mult" -> "Multiply"
                 [] op = "MatMult" -> "MatrixMultiply"
                 [] op = "Div" -> "Divide"
                 [] op = "FloorDiv" -> "FloorDivide"
                 [] op = "Mod" -> "Modulo"
                 [] op = "Pow" -> "Power"
                 [] op = "LShift" -> "Lshift"
                 [] op = "RShift" -> "Rshift"
                 [] op = "BitOr" -> "Or"
                 [] op = "BitXor" -> "Xor"
                 [] op = "BitAnd" -> "And"
    IN IF inplace THEN self_emit_sub(c, "BinaryOperationInplace", bop)
       ELSE self_emit_sub(c, "BinaryOperation", bop)

\* the closure compile_cmpop of compile_chained_comparison
compile_cmpop(c, op) ==
    CASE op = "Eq" -> self_emit_sub(c, "CompareOperation", "Equal")
      [] op = "NotEq" -> self_emit_sub(c, "CompareOperation", "NotEqual")
      [] op = "Lt" -> self_emit_sub(c, "CompareOperation", "Less")
      [] op = "LtE" -> self_emit_sub(c, "CompareOperation", "LessOrEqual")
      [] op = "Gt" -> self_emit_sub(c, "CompareOperation", "Greater")
      [] op = "GtE" -> self_emit_sub(c, "CompareOperation", "GreaterOrEqual")
      [] op = "In" -> self_emit_sub(c, "TestOperation", "In")
      [] op = "NotIn" -> self_emit_sub(c, "TestOperation", "NotIn")
      [] op = "Is" -> self_emit_sub(c, "TestOperation", "Is")
      [] op = "IsNot" -> self_emit_sub(c, "TestOperation", "IsNot")

\* the loop of compile_chained_comparison over all comparisons but the last
RECURSIVE compile_mid_comparisons(_, _, _, _)
\* compile_mid_comparisons with a fault: the chain is left when a comparison
\* is true.
compile_mid_comparisons_on_true(c, mid_ops, mid_exprs, end_blocks) ==
    IF mid_ops = <<>> \/ mid_exprs = <<>> THEN c
    ELSE LET c1 == self_compile_expression(c, Head(mid_exprs))
         IN IF Failed(c1) THEN c1
            ELSE LET c2 == self_emit_no_arg(c1, "Duplicate")
                     c3 == self_emit_no_arg(c2, "Rotate3")
                     c4 == self_compile_cmpop(c3, Head(mid_ops))
                     c5 == IF end_blocks # None
                           THEN self_emit_target(c4, "JumpIfTrueOrPop", end_blocks[1].break_block)
                           ELSE c4
                 IN self_compile_mid_comparisons(c5, Tail(mid_ops), Tail(mid_exprs), end_blocks)

compile_mid_comparisons(c, mid_ops, mid_exprs, end_blocks) ==
    IF mid_ops = <<>> \/ mid_exprs = <<>> THEN c
    ELSE LET c1 == self_compile_expression(c, Head(mid_exprs))
         IN IF Failed(c1) THEN c1
            ELSE LET c2 == self_emit_no_arg(c1, "Duplicate")
                     c3 == self_emit_no_arg(c2, "Rotate3")
                     c4 == self_compile_cmpop(c3, Head(mid_ops))
                     c5 == IF end_blocks # None
                           THEN self_emit_target(c4, "JumpIfFalseOrPop", end_blocks[1].break_block)
                           ELSE c4
                 IN self_compile_mid_comparisons(c5, Tail(mid_ops), Tail(mid_exprs), end_blocks)

compile_chained_comparison(c, left, ops, exprs) ==
    IF ops = <<>> THEN error(c, "panic: assertion failed: !ops.is_empty()")
    ELSE IF Len(exprs) # Len(ops) THEN error(c, "panic: assertion failed: exprs.len() == ops.len()")
    ELSE
    LET last_op == Last(ops)
        mid_ops == Front(ops)
        last_val == Last(exprs)
        mid_exprs == Front(exprs)
        c1 == self_compile_expression(c, left)
    IN IF Failed(c1) THEN c1
       ELSE LET nb1 == self_new_block(c1)
                nb2 == self_new_block(nb1.c)
                end_blocks == IF mid_exprs = <<>> THEN None
                              ELSE Some([break_block |-> nb1.idx, after_block |-> nb2.idx])
                c2 == IF mid_exprs = <<>> THEN c1 ELSE nb2.c
                c3 == self_compile_mid_comparisons(c2, mid_ops, mid_exprs, end_blocks)
            IN IF Failed(c3) THEN c3
               ELSE LET c4 == self_compile_expression(c3, last_val)
                    IN IF Failed(c4) THEN c4
                       ELSE LET c5 == self_compile_cmpop(c4, last_op)
                            IN IF end_blocks = None THEN c5
                               ELSE LET c6 == self_emit_target(c5, "Jump", end_blocks[1].after_block)
                                        c7 == self_switch_to_block(c6, end_blocks[1].break_block)
                                        c8 == self_emit_no_arg(c7, "Rotate2")
                                        c9 == self_emit_no_arg(c8, "Pop")
                                    IN self_switch_to_block(c9, end_blocks[1].after_block)

\* the loop of compile_bool_op over all values but the last
RECURSIVE compile_bool_values(_, _, _, _)
\* compile_bool_values with a fault: the two jumps are exchanged.
compile_bool_values_swapped(c, op, values, after_block) ==
    IF values = <<>> THEN c
    ELSE LET c1 == self_compile_expression(c, Head(values))
         IN IF Failed(c1) THEN c1
            ELSE LET c2 == IF op = "And"
                           THEN self_emit_target(c1, "JumpIfTrueOrPop", after_block)
                           ELSE self_emit_target(c1, "JumpIfFalseOrPop", after_block)
                 IN self_compile_bool_values(c2, op, Tail(values), after_block)

compile_bool_values(c, op, values, after_block) ==
    IF values = <<>> THEN c
    ELSE LET c1 == self_compile_expression(c, Head(values))
         IN IF Failed(c1) THEN c1
            ELSE LET c2 == IF op = "And"
                           THEN self_emit_target(c1, "JumpIfFalseOrPop", after_block)
                           ELSE self_emit_target(c1, "JumpIfTrueOrPop", after_block)
                 IN self_compile_bool_values(c2, op, Tail(values), after_block)

compile_bool_op(c, op, values) ==
    LET nb == self_new_block(c)
        after_block == nb.idx
        last_value == Last(values)
        c1 == self_compile_bool_values(nb.c, op, Front(values), after_block)
    IN IF Failed(c1) THEN c1
       ELSE LET c2 == self_compile_expression(c1, last_value)
            IN IF Failed(c2) THEN c2
               ELSE self_switch_to_block(c2, after_block)

\* `for value in values { self.compile_jump_if(value, condition, target)?; }`
RECURSIVE compile_jump_if_each(_, _, _, _)
compile_jump_if_each(c, values, condition, target_block) ==
    IF values = <<>> THEN c
    ELSE LET c1 == self_compile_jump_if(c, Head(values), condition, target_block)
         IN IF Failed(c1) THEN c1
            ELSE self_compile_jump_if_each(c1, Tail(values), condition, target_block)

\* compile_jump_if with a fault: `not` passes the condition on as it is.
compile_jump_if_not_keeps_condition(c, expression, condition, target_block) ==
    CASE expression.k = "BoolOp" /\ expression.op = "And" /\ condition ->
           LET nb == self_new_block(c)
               end_block == nb.idx
               c1 == self_compile_jump_if_each(nb.c, Front(expression.values), FALSE, end_block)
           IN IF Failed(c1) THEN c1
              ELSE LET c2 == self_compile_jump_if(c1, Last(expression.values), TRUE, target_block)
                   IN IF Failed(c2) THEN c2 ELSE self_switch_to_block(c2, end_block)
      [] expression.k = "BoolOp" /\ expression.op = "And" /\ ~condition ->
           self_compile_jump_if_each(c, expression.values, FALSE, target_block)
      [] expression.k = "BoolOp" /\ expression.op = "Or" /\ condition ->
           self_compile_jump_if_each(c, expression.values, TRUE, target_block)
      [] expression.k = "BoolOp" /\ expression.op = "Or" /\ ~condition ->
           LET nb == self_new_block(c)
               end_block == nb.idx
               c1 == self_compile_jump_if_each(nb.c, Front(expression.values), TRUE, end_block)
           IN IF Failed(c1) THEN c1
              ELSE LET c2 == self_compile_jump_if(c1, Last(expression.values), FALSE, target_block)
                   IN IF Failed(c2) THEN c2 ELSE self_switch_to_block(c2, end_block)
      [] expression.k = "UnaryOp" /\ expression.op = "Not" ->
           self_compile_jump_if(c, expression.operand, condition, target_block)
      [] OTHER ->
           LET c1 == self_compile_expression(c, expression)
           IN IF Failed(c1) THEN c1
              ELSE IF condition THEN self_emit_target(c1, "JumpIfTrue", target_block)
              ELSE self_emit_target(c1, "JumpIfFalse", target_block)

compile_jump_if(c, expression, condition, target_block) ==
    CASE expression.k = "BoolOp" /\ expression.op = "And" /\ condition ->
           LET nb == self_new_block(c)
               end_block == nb.idx
               c1 == self_compile_jump_if_each(nb.c, Front(expression.values), FALSE, end_block)
           IN IF Failed(c1) THEN c1
              ELSE LET c2 == self_compile_jump_if(c1, Last(expression.values), TRUE, target_block)
                   IN IF Failed(c2) THEN c2 ELSE self_switch_to_block(c2, end_block)
      [] expression.k = "BoolOp" /\ expression.op = "And" /\ ~condition ->
           self_compile_jump_if_each(c, expression.values, FALSE, target_block)
      [] expression.k = "BoolOp" /\ expression.op = "Or" /\ condition ->
           self_compile_jump_if_each(c, expression.values, TRUE, target_block)
      [] expression.k = "BoolOp" /\ expression.op = "Or" /\ ~condition ->
           LET nb == self_new_block(c)
               end_block == nb.idx
               c1 == self_compile_jump_if_each(nb.c, Front(expression.values), TRUE, end_block)
           IN IF Failed(c1) THEN c1
              ELSE LET c2 == self_compile_jump_if(c1, Last(expression.values), FALSE, target_block)
                   IN IF Failed(c2) THEN c2 ELSE self_switch_to_block(c2, end_block)
      [] expression.k = "UnaryOp" /\ expression.op = "Not" ->
           self_compile_jump_if(c, expression.operand, ~condition, target_block)
      [] OTHER ->
           LET c1 == self_compile_expression(c, expression)
           IN IF Failed(c1) THEN c1
              ELSE IF condition THEN self_emit_target(c1, "JumpIfTrue", target_block)
              ELSE self_emit_target(c1, "JumpIfFalse", target_block)

\* `for element in &defaults { self.compile_expression(element)?; }`
RECURSIVE compile_expressions(_, _)
compile_expressions(c, exprs) ==
    IF exprs = <<>> THEN c
    ELSE LET c1 == self_compile_expression(c, Head(exprs))
         IN IF Failed(c1) THEN c1 ELSE self_compile_expressions(c1, Tail(exprs))

\* the keyword-only defaults of enter_function: name constant, then value
RECURSIVE compile_kw_defaults(_, _)
compile_kw_defaults(c, kw_with_defaults) ==
    IF kw_with_defaults = <<>> THEN c
    ELSE LET c1 == self_emit_load_const(c, ConstStr(Head(kw_with_defaults).parameter.name))
             c2 == self_compile_expression(c1, Head(kw_with_defaults).default[1])
         IN IF Failed(c2) THEN c2 ELSE self_compile_kw_defaults(c2, Tail(kw_with_defaults))

\* `for name in args_iter { self.varname(name.name.as_str())?; }`
RECURSIVE varnames(_, _)
varnames(c, ids) ==
    IF ids = <<>> THEN c
    ELSE LET r == self_varname(c, Head(ids))
         IN IF Failed(r.c) THEN r.c ELSE self_varnames(r.c, Tail(ids))

set_flag(c, flag, on) ==
    LET info == current_code_info(c)
    IN set_code_info(c, [info EXCEPT !.flags = IF on THEN @ \cup {flag} ELSE @ \ {flag}])

\* `if have_defaults { ... }` of enter_function: the tuple of the defaults
enter_function_defaults(c, defaults) ==
    IF defaults = <<>> THEN c
    ELSE LET d == self_compile_expressions(c, defaults)
         IN IF Failed(d) THEN d ELSE self_emit_arg(d, "BuildTuple", Len(defaults))

\* `if !kw_with_defaults.is_empty() { ... }` of enter_function: the map of
\* the keyword-only defaults
enter_function_kw_defaults(c, kw_with_defaults) ==
    IF Failed(c) \/ kw_with_defaults = <<>> THEN c
    ELSE LET d == self_compile_kw_defaults(c, kw_with_defaults)
         IN IF Failed(d) THEN d ELSE self_emit_arg(d, "BuildMap", Len(kw_with_defaults))

\* the code unit of the function and the names of its parameters
enter_function_output(c, fname, posonly, positional, kwonly, args_iter) ==
    IF Failed(c) THEN c
    ELSE LET c1 == self_push_output(c, {"NEW_LOCALS", "IS_OPTIMIZED"},
                                    posonly, positional, kwonly, fname)
         IN IF Failed(c1) THEN c1
            ELSE self_varnames(c1, [i \in 1..Len(args_iter) |-> args_iter[i].parameter.name])

\* `if let Some(name) = parameters.vararg.as_deref() { ... }`, and the same
\* for kwarg
enter_function_star(c, flag, arg) ==
    IF Failed(c) \/ arg = None THEN c
    ELSE self_varname(self_set_flag(c, flag, TRUE), arg[1].name).c

enter_function(c, fname, parameters) ==
    LET positional == parameters.posonlyargs \o parameters.args
        with_default(ps) == SeqFilter(ps, {p \in Range(ps) : p.default # None})
        without_default(ps) == SeqFilter(ps, {p \in Range(ps) : p.default = None})
        defaults == [p \in DOMAIN with_default(positional) |->
                        with_default(positional)[p].default[1]]
        have_defaults == defaults # <<>>
        c1 == enter_function_defaults(c, defaults)
        kw_without_defaults == without_default(parameters.kwonlyargs)
        kw_with_defaults == with_default(parameters.kwonlyargs)
        c2 == enter_function_kw_defaults(c1, kw_with_defaults)
        func_flags == (IF have_defaults THEN {"DEFAULTS"} ELSE {})
                      \cup (IF kw_with_defaults # <<>> THEN {"KW_ONLY_DEFAULTS"} ELSE {})
        args_iter == positional \o kw_without_defaults \o kw_with_defaults
        c3 == enter_function_output(c2, fname, Len(parameters.posonlyargs), Len(positional),
                                    Len(parameters.kwonlyargs), args_iter)
        c5 == enter_function_star(c3, "HAS_VARARGS", parameters.vararg)
        c6 == enter_function_star(c5, "HAS_VARKEYWORDS", parameters.kwarg)
    IN [c |-> c6, func_flags |-> func_flags]

\* the loop of build_closure over the free variables of the nested code object
RECURSIVE load_closures(_, _)
load_closures(c, freevars) ==
    IF freevars = <<>> THEN c
    ELSE LET var == Head(freevars)
             table == Last(c.symbol_table_stack)
             parent_code == current_code_info(c)
         IN IF ~has_symbol(table, var) THEN error(c, "panic: couldn't look up var")
            ELSE LET symbol == lookup(table, var)
                     cache == CASE symbol.scope = "Free" -> "freevar_cache"
                                [] symbol.scope = "Cell" -> "cellvar_cache"
                                [] symbol.scope \notin {"Free", "Cell"}
                                   /\ "FREE_CLASS" \in symbol.flags -> "freevar_cache"
                                [] OTHER -> "unreachable"
                 IN IF cache = "unreachable"
                    THEN error(c, "panic: var should be free or cell")
                    ELSE IF ~contains(parent_code[cache], var)
                    THEN error(c, "panic: unwrap on None")
                    ELSE LET found == get_index_of(parent_code[cache], var)
                             idx == IF symbol.scope = "Free"
                                    THEN found + Len(parent_code.cellvar_cache)
                                    ELSE found
                         IN self_load_closures(self_emit_arg(c, "LoadClosure", idx), Tail(freevars))

build_closure(c, co) ==
    IF co.freevars = <<>> THEN [c |-> c, closure |-> FALSE]
    ELSE [c |-> self_emit_arg(self_load_closures(c, co.freevars), "BuildTuple", Len(co.freevars)),
          closure |-> TRUE]

\* compile_lambda with a fault: the context of the lambda is left in force
\* after it.
compile_lambda_keeps_ctx(c, parameters, body) ==
    LET prev_ctx == c.ctx
        fname == "<lambda>"
        ef == self_enter_function(c, fname,
                             IF parameters = None THEN NoParameters ELSE parameters[1])
    IN IF Failed(ef.c) THEN ef.c
       ELSE LET c1 == self_set_ctx(ef.c, CompileContext(None, prev_ctx.in_class, "Function"))
                c2 == self_arg_constant(c1, ConstNone).c
                c3 == self_compile_expression(c2, body)
            IN IF Failed(c3) THEN c3
               ELSE LET c4 == self_emit_return_value(c3)
                        popped == self_pop_code_object(c4)
                    IN IF Failed(popped.c) THEN popped.c
                       ELSE LET co == popped.code[1]
                                bc == self_build_closure(popped.c, co)
                                func_flags == ef.func_flags
                                    \cup (IF bc.closure THEN {"CLOSURE"} ELSE {})
                                c5 == self_emit_load_const(bc.c, ConstCode(co))
                                c6 == self_emit_load_const(c5, ConstStr(fname))
                                c7 == self_emit_arg(c6, "MakeFunction", flag_bits(func_flags))
                            IN leave_scope(c7, "lambda", prev_ctx)

compile_lambda(c, parameters, body) ==
    LET prev_ctx == c.ctx
        fname == "<lambda>"
        ef == self_enter_function(c, fname,
                             IF parameters = None THEN NoParameters ELSE parameters[1])
    IN IF Failed(ef.c) THEN ef.c
       ELSE LET c1 == self_set_ctx(ef.c, CompileContext(None, prev_ctx.in_class, "Function"))
                c2 == self_arg_constant(c1, ConstNone).c
                c3 == self_compile_expression(c2, body)
            IN IF Failed(c3) THEN c3
               ELSE LET c4 == self_emit_return_value(c3)
                        popped == self_pop_code_object(c4)
                    IN IF Failed(popped.c) THEN popped.c
                       ELSE LET co == popped.code[1]
                                bc == self_build_closure(popped.c, co)
                                func_flags == ef.func_flags
                                    \cup (IF bc.closure THEN {"CLOSURE"} ELSE {})
                                c5 == self_emit_load_const(bc.c, ConstCode(co))
                                c6 == self_emit_load_const(c5, ConstStr(fname))
                                c7 == self_emit_arg(c6, "MakeFunction", flag_bits(func_flags))
                            IN leave_scope(self_set_ctx(c7, prev_ctx), "lambda", prev_ctx)

\* the `let kind = match &target` of compile_augassign: the load of the
\* target's present value
compile_augassign_load(c, target) ==
    CASE target.k = "Name" -> self_compile_name(c, target.id, "Load")
      [] target.k = "Subscript" ->
           LET c1 == self_compile_expression(c, target.value)
           IN IF Failed(c1) THEN c1
              ELSE self_emit_no_arg(
                       self_emit_no_arg(self_compile_expression(c1, target.slice), "Duplicate2"),
                       "Subscript")
      [] target.k = "Attribute" ->
           LET c1 == self_check_forbidden_name(c, target.attr, "Store")
           IN IF Failed(c1) THEN c1
              ELSE LET c2 == self_emit_no_arg(self_compile_expression(c1, target.value),
                                              "Duplicate")
                   IN IF Failed(c2) THEN c2
                      ELSE LET r == self_name(c2, target.attr)
                           IN self_emit_arg(r.c, "LoadAttr", r.idx)
      [] target.k \notin {"Name", "Subscript", "Attribute"} -> error(c, "Assign")

\* the `match kind` of compile_augassign: the store of the result
compile_augassign_store(c, target) ==
    CASE target.k = "Name" -> self_compile_name(c, target.id, "Store")
      [] target.k = "Subscript" ->
           self_emit_no_arg(self_emit_no_arg(c, "Rotate3"), "StoreSubscript")
      [] target.k = "Attribute" ->
           LET r == self_name(c, target.attr)
           IN self_emit_arg(self_emit_no_arg(r.c, "Rotate2"), "StoreAttr", r.idx)

compile_augassign(c, target, op, value) ==
    LET c1 == self_compile_augassign_load(c, target)
    IN IF Failed(c1) THEN c1
       ELSE LET c2 == self_compile_expression(c1, value)
            IN IF Failed(c2) THEN c2
               ELSE self_compile_augassign_store(self_compile_op(c2, op, TRUE), target)

(***************************************************************************)
(* Calls.                                                                  *)
(***************************************************************************)
\* the length of the first group of chunk_by: the longest prefix of equal
\* keys
RECURSIVE run_len(_)
run_len(keys) ==
    IF Len(keys) <= 1 THEN Len(keys)
    ELSE IF keys[2] = keys[1] THEN 1 + run_len(Tail(keys)) ELSE 1

\* the `for (starred, run) in &groups` loop of gather_elements
gather_runs(c, elements, size) ==
    IF elements = <<>> THEN [c |-> c, size |-> size]
    ELSE LET starred == Head(elements).k = "Starred"
             run_size == run_len([i \in 1..Len(elements) |-> elements[i].k = "Starred"])
             run == [i \in 1..run_size |-> IF starred THEN elements[i].value ELSE elements[i]]
             c1 == self_compile_expressions(c, run)
         IN IF Failed(c1) THEN [c |-> c1, size |-> size]
            ELSE IF starred
            THEN self_gather_runs(c1, SubSeq(elements, run_size + 1, Len(elements)),
                                  size + run_size)
            ELSE self_gather_runs(self_emit_arg(c1, "BuildTuple", run_size),
                                  SubSeq(elements, run_size + 1, Len(elements)), size + 1)

gather_elements(c, before, elements) ==
    LET has_stars == \E i \in 1..Len(elements) : elements[i].k = "Starred"
    IN IF has_stars
       THEN LET r == IF before > 0
                     THEN self_gather_runs(self_emit_arg(c, "BuildTuple", before), elements, 1)
                     ELSE self_gather_runs(c, elements, 0)
            IN [c |-> r.c, size |-> r.size, unpack |-> TRUE]
       ELSE [c |-> self_compile_expressions(c, elements),
             size |-> before + Len(elements), unpack |-> FALSE]

\* the named keywords of one group of compile_keywords: name constant, value
compile_keyword_items(c, sub_keywords) ==
    IF sub_keywords = <<>> THEN c
    ELSE LET c1 == self_emit_load_const(c, ConstStr(Head(sub_keywords).arg[1]))
             c2 == self_compile_expression(c1, Head(sub_keywords).value)
         IN IF Failed(c2) THEN c2 ELSE self_compile_keyword_items(c2, Tail(sub_keywords))

\* the `for (is_unpacking, sub_keywords) in &groupby` loop of compile_keywords
compile_keyword_groups(c, keywords, size) ==
    IF keywords = <<>>
    THEN IF size > 1 THEN self_emit_arg(c, "BuildMapForCall", size) ELSE c
    ELSE LET is_unpacking == Head(keywords).arg = None
             n == run_len([i \in 1..Len(keywords) |-> keywords[i].arg = None])
             rest == SubSeq(keywords, n + 1, Len(keywords))
             c1 == IF is_unpacking
                   THEN self_compile_expressions(c, [i \in 1..n |-> keywords[i].value])
                   ELSE self_emit_arg(self_compile_keyword_items(c, SubSeq(keywords, 1, n)),
                                      "BuildMap", n)
         IN IF Failed(c1) THEN c1
            ELSE self_compile_keyword_groups(c1, rest, IF is_unpacking THEN size + n
                                                       ELSE size + 1)

compile_keywords(c, keywords) == self_compile_keyword_groups(c, keywords, 0)

\* `for keyword in &arguments.keywords { check_forbidden_name(..)? }`
check_keyword_names(c, keywords) ==
    IF keywords = <<>> THEN c
    ELSE LET c1 == IF Head(keywords).arg # None
                   THEN self_check_forbidden_name(c, Head(keywords).arg[1], "Store")
                   ELSE c
         IN IF Failed(c1) THEN c1 ELSE self_check_keyword_names(c1, Tail(keywords))

\* bytecode CallType: Positional{nargs}, Keyword{nargs}, Ex{has_kwargs}
CallType(ty, arg) == [ty |-> ty, arg |-> arg]

\* compile_call_inner from `let call = ...` on
compile_call_kind(c, count, size, unpack, keywords) ==
    LET has_double_star == \E i \in 1..Len(keywords) : keywords[i].arg = None
    IN IF unpack \/ has_double_star
       THEN LET c1 == self_emit_arg(c, IF unpack THEN "BuildTupleUnpack" ELSE "BuildTuple", size)
                has_kwargs == keywords # <<>>
            IN [c |-> IF has_kwargs THEN self_compile_keywords(c1, keywords) ELSE c1,
                call |-> CallType("Ex", IF has_kwargs THEN 1 ELSE 0)]
       ELSE IF keywords # <<>>
       THEN LET c1 == self_compile_expressions(c, [i \in 1..Len(keywords) |-> keywords[i].value])
                kwarg_names == [i \in 1..Len(keywords) |-> ConstStr(keywords[i].arg[1])]
            IN [c |-> IF Failed(c1) THEN c1 ELSE self_emit_load_const(c1, ConstTuple(kwarg_names)),
                call |-> CallType("Keyword", count)]
       ELSE [c |-> c, call |-> CallType("Positional", count)]

compile_call_inner(c, additional_positional, arguments) ==
    LET count == Len(arguments.args) + Len(arguments.keywords) + additional_positional
        g == self_gather_elements(c, additional_positional, arguments.args)
    IN IF Failed(g.c) THEN [c |-> g.c, call |-> CallType("Positional", count)]
       ELSE LET c1 == self_check_keyword_names(g.c, arguments.keywords)
            IN IF Failed(c1) THEN [c |-> c1, call |-> CallType("Positional", count)]
               ELSE self_compile_call_kind(c1, count, g.size, g.unpack, arguments.keywords)

compile_normal_call(c, ty) ==
    CASE ty.ty = "Positional" -> self_emit_arg(c, "CallFunctionPositional", ty.arg)
      [] ty.ty = "Keyword" -> self_emit_arg(c, "CallFunctionKeyword", ty.arg)
      [] ty.ty = "Ex" -> self_emit_arg(c, "CallFunctionEx", ty.arg)

compile_method_call(c, ty) ==
    CASE ty.ty = "Positional" -> self_emit_arg(c, "CallMethodPositional", ty.arg)
      [] ty.ty = "Keyword" -> self_emit_arg(c, "CallMethodKeyword", ty.arg)
      [] ty.ty = "Ex" -> self_emit_arg(c, "CallMethodEx", ty.arg)

compile_call(c, func, args) ==
    LET method == func.k = "Attribute"
        c1 == IF method
              THEN LET m1 == self_compile_expression(c, func.value)
                   IN IF Failed(m1) THEN m1
                      ELSE LET r == self_name(m1, func.attr)
                           IN self_emit_arg(r.c, "LoadMethod", r.idx)
              ELSE self_compile_expression(c, func)
    IN IF Failed(c1) THEN c1
       ELSE LET r == self_compile_call_inner(c1, 0, args)
            IN IF Failed(r.c) THEN r.c
               ELSE IF method THEN self_compile_method_call(r.c, r.call)
               ELSE self_compile_normal_call(r.c, r.call)

(***************************************************************************)
(* Comprehensions: the synthetic one-argument function, its loops, and the *)
(* call on the first iterable.                                             *)
(***************************************************************************)
IterableUnpacking == "SyntaxError: iterable unpacking cannot be used in comprehension"

compile_comprehension_element(c, element) ==
    LET c1 == self_compile_expression(c, element)
    IN IF c1.error = "InvalidStarExpr"
       THEN [c1 EXCEPT !.error = IterableUnpacking, !.raised = Append(@, IterableUnpacking)]
       ELSE c1

\* the closure compile_element that each comprehension form passes
compile_element(c, expression) ==
    CASE expression.k = "ListComp" ->
           self_emit_arg(self_compile_comprehension_element(c, expression.elt),
                         "ListAppend", Len(expression.generators))
      [] expression.k = "SetComp" ->
           self_emit_arg(self_compile_comprehension_element(c, expression.elt),
                         "SetAdd", Len(expression.generators))
      [] expression.k = "DictComp" ->
           LET c1 == self_compile_expression(c, expression.key)
           IN IF Failed(c1) THEN c1
              ELSE self_emit_arg(self_compile_expression(c1, expression.value),
                                 "MapAdd", Len(expression.generators))
      [] expression.k = "Generator" ->
           LET c1 == self_compile_comprehension_element(c, expression.elt)
           IN IF Failed(c1) THEN c1
              ELSE self_emit_no_arg(self_emit_no_arg(self_mark_generator(c1), "YieldValue"),
                                    "Pop")

\* one generator of the `for generator in generators` loop, from the switch
\* to its loop block on
comprehension_loop(c, generator, loop_block, after_block) ==
    LET c1 == self_switch_to_block(c, loop_block)
        c2 == IF generator.is_async
              THEN LET a1 == self_emit_target(c1, "SetupExcept", after_block)
                       a2 == self_emit_no_arg(a1, "GetANext")
                       a3 == self_emit_load_const(a2, ConstNone)
                       a4 == self_emit_no_arg(a3, "YieldFrom")
                   IN self_emit_no_arg(self_compile_store(a4, generator.target), "PopBlock")
              ELSE self_compile_store(self_emit_target(c1, "ForIter", after_block),
                                      generator.target)
    IN IF Failed(c2) THEN c2
       ELSE self_compile_jump_if_each(c2, generator.ifs, FALSE, loop_block)

\* `for generator in generators`
comprehension_loops(c, generators, loop_labels, arg0) ==
    IF generators = <<>> THEN [c |-> c, loop_labels |-> loop_labels]
    ELSE LET generator == Head(generators)
             nb1 == self_new_block(c)
             nb2 == self_new_block(nb1.c)
             c1 == IF loop_labels = <<>> THEN self_emit_arg(nb2.c, "LoadFast", arg0)
                   ELSE self_emit_no_arg(self_compile_expression(nb2.c, generator.iter),
                                         IF generator.is_async THEN "GetAIter" ELSE "GetIter")
             c2 == IF Failed(c1) THEN c1
                   ELSE self_comprehension_loop(c1, generator, nb1.idx, nb2.idx)
         IN IF Failed(c2) THEN [c |-> c2, loop_labels |-> loop_labels]
            ELSE self_comprehension_loops(c2, Tail(generators),
                                          Append(loop_labels, <<nb1.idx, nb2.idx>>), arg0)

\* `for (loop_block, after_block) in loop_labels.iter().rev()`
comprehension_ends(c, loop_labels, has_an_async_gen) ==
    IF Failed(c) \/ loop_labels = <<>> THEN c
    ELSE LET c1 == self_emit_target(c, "Jump", Last(loop_labels)[1])
             c2 == self_switch_to_block(c1, Last(loop_labels)[2])
             c3 == IF has_an_async_gen THEN self_emit_no_arg(c2, "EndAsyncFor") ELSE c2
         IN self_comprehension_ends(c3, Front(loop_labels), has_an_async_gen)

\* the body of the synthetic function, between push_output and
\* pop_code_object
comprehension_body(c, init_collection, generators, expression, has_an_async_gen) ==
    LET r == self_varname(c, ".0")
    IN IF Failed(r.c) THEN r.c
       ELSE LET c1 == IF init_collection # None THEN self_emit_arg(r.c, init_collection[1], 0)
                      ELSE r.c
                loops == self_comprehension_loops(c1, generators, <<>>, r.idx)
            IN IF Failed(loops.c) THEN loops.c
               ELSE LET c2 == self_compile_element(loops.c, expression)
                        c3 == IF Failed(c2) THEN c2
                              ELSE self_comprehension_ends(c2, loops.loop_labels,
                                                           has_an_async_gen)
                        c4 == IF init_collection = None THEN self_emit_load_const(c3, ConstNone)
                              ELSE c3
                    IN IF Failed(c4) THEN c4 ELSE self_emit_return_value(c4)

\* comprehension_call with a fault: the call is awaited whenever a clause is
\* `async for`, whatever the kind of the comprehension.
comprehension_call_awaits_async_for(c, prev_ctx, comp_name, generators, has_an_async_gen, is_async_list_set_dict_comprehension) ==
    LET popped == self_pop_code_object(c)
    IN IF Failed(popped.c) THEN popped.c
       ELSE LET co == popped.code[1]
                bc == self_build_closure(leave_scope(self_set_ctx(popped.c, prev_ctx),
                                                     "comprehension", prev_ctx), co)
                func_flags == IF bc.closure THEN {"CLOSURE"} ELSE {}
                c1 == self_emit_load_const(bc.c, ConstCode(co))
                c2 == self_emit_load_const(c1, ConstStr(comp_name))
                c3 == self_emit_arg(c2, "MakeFunction", flag_bits(func_flags))
                c4 == IF Failed(c3) THEN c3 ELSE self_compile_expression(c3, generators[1].iter)
                c5 == self_emit_no_arg(c4, IF has_an_async_gen THEN "GetAIter" ELSE "GetIter")
                c6 == self_emit_arg(c5, "CallFunctionPositional", 1)
            IN IF is_async_list_set_dict_comprehension \/ has_an_async_gen
               THEN self_emit_no_arg(
                        self_emit_load_const(self_emit_no_arg(c6, "GetAwaitable"), ConstNone),
                        "YieldFrom")
               ELSE c6

\* from pop_code_object on: the function object and its call
comprehension_call(c, prev_ctx, comp_name, generators, has_an_async_gen, is_async_list_set_dict_comprehension) ==
    LET popped == self_pop_code_object(c)
    IN IF Failed(popped.c) THEN popped.c
       ELSE LET co == popped.code[1]
                bc == self_build_closure(leave_scope(self_set_ctx(popped.c, prev_ctx),
                                                     "comprehension", prev_ctx), co)
                func_flags == IF bc.closure THEN {"CLOSURE"} ELSE {}
                c1 == self_emit_load_const(bc.c, ConstCode(co))
                c2 == self_emit_load_const(c1, ConstStr(comp_name))
                c3 == self_emit_arg(c2, "MakeFunction", flag_bits(func_flags))
                c4 == IF Failed(c3) THEN c3 ELSE self_compile_expression(c3, generators[1].iter)
                c5 == self_emit_no_arg(c4, IF has_an_async_gen THEN "GetAIter" ELSE "GetIter")
                c6 == self_emit_arg(c5, "CallFunctionPositional", 1)
            IN IF is_async_list_set_dict_comprehension
               THEN self_emit_no_arg(
                        self_emit_load_const(self_emit_no_arg(c6, "GetAwaitable"), ConstNone),
                        "YieldFrom")
               ELSE c6

compile_comprehension(c, comp_name, init_collection, generators, expression, comprehension_type, element_contains_await) ==
    LET prev_ctx == c.ctx
        has_an_async_gen == \E i \in 1..Len(generators) : generators[i].is_async
        is_async_list_set_dict_comprehension ==
            /\ comprehension_type # "Generator"
            /\ (has_an_async_gen \/ element_contains_await)
            /\ prev_ctx.func = "AsyncFunction"
        is_async_generator_comprehension ==
            /\ comprehension_type = "Generator"
            /\ (has_an_async_gen \/ element_contains_await)
        is_async == is_async_list_set_dict_comprehension \/ is_async_generator_comprehension
        c1 == self_set_ctx(c, CompileContext(None, prev_ctx.in_class,
                                             IF is_async THEN "AsyncFunction" ELSE "Function"))
    IN IF generators = <<>> THEN error(c1, "panic: assertion failed: !generators.is_empty()")
       ELSE LET flags == {"NEW_LOCALS", "IS_OPTIMIZED"}
                         \cup (IF is_async THEN {"IS_COROUTINE"} ELSE {})
                c2 == self_push_output(c1, flags, 1, 1, 0, comp_name)
                c3 == IF Failed(c2) THEN c2
                      ELSE self_comprehension_body(c2, init_collection, generators, expression,
                                                   has_an_async_gen)
            IN IF Failed(c3) THEN c3
               ELSE self_comprehension_call(c3, prev_ctx, comp_name, generators, has_an_async_gen,
                                            is_async_list_set_dict_comprehension)

\* the arguments with which each comprehension arm of compile_expression
\* calls compile_comprehension
comprehension_arm(c, expression) ==
    CASE expression.k = "ListComp" ->
           self_compile_comprehension(c, "<listcomp>", Some("BuildList"),
                                      expression.generators, expression, "List",
                                      contains_await(expression.elt))
      [] expression.k = "SetComp" ->
           self_compile_comprehension(c, "<setcomp>", Some("BuildSet"),
                                      expression.generators, expression, "Set",
                                      contains_await(expression.elt))
      [] expression.k = "DictComp" ->
           self_compile_comprehension(c, "<dictcomp>", Some("BuildMap"),
                                      expression.generators, expression, "Dict",
                                      contains_await(expression.key)
                                      \/ contains_await(expression.value))
      [] expression.k = "Generator" ->
           self_compile_comprehension(c, "<genexpr>", None,
                                      expression.generators, expression, "Generator",
                                      contains_await(expression.elt))

compile_expression(c, expression) ==
    CASE expression.k = "BoolOp" -> self_compile_bool_op(c, expression.op, expression.values)
      [] expression.k = "BinOp" ->
           LET c1 == self_compile_expression(c, expression.left)
           IN IF Failed(c1) THEN c1
              ELSE LET c2 == self_compile_expression(c1, expression.right)
                   IN IF Failed(c2) THEN c2 ELSE self_compile_op(c2, expression.op, FALSE)
      [] expression.k = "Subscript" ->
           LET c1 == self_compile_expression(c, expression.value)
           IN IF Failed(c1) THEN c1
              ELSE LET c2 == self_compile_expression(c1, expression.slice)
                   IN IF Failed(c2) THEN c2 ELSE self_emit_no_arg(c2, "Subscript")
      [] expression.k = "UnaryOp" ->
           LET c1 == self_compile_expression(c, expression.operand)
               uop == CASE expression.op = "UAdd" -> "Plus"
                        [] expression.op = "USub" -> "Minus"
                        [] expression.op = "Not" -> "Not"
                        [] expression.op = "Invert" -> "Invert"
           IN IF Failed(c1) THEN c1 ELSE self_emit_sub(c1, "UnaryOperation", uop)
      [] expression.k = "Attribute" ->
           LET c1 == self_compile_expression(c, expression.value)
           IN IF Failed(c1) THEN c1
              ELSE LET r == self_name(c1, expression.attr) IN self_emit_arg(r.c, "LoadAttr", r.idx)
      [] expression.k = "Compare" ->
           self_compile_chained_comparison(c, expression.left, expression.ops,
                                      expression.comparators)
      [] expression.k = "Yield" ->
           IF ~in_func(c.ctx) THEN error(c, "InvalidYield")
           ELSE LET c1 == self_mark_generator(c)
                    c2 == IF expression.value # None
                          THEN self_compile_expression(c1, expression.value[1])
                          ELSE self_emit_load_const(c1, ConstNone)
                IN IF Failed(c2) THEN c2 ELSE self_emit_no_arg(c2, "YieldValue")
      [] expression.k = "Await" ->
           IF c.ctx.func # "AsyncFunction" THEN error(c, "InvalidAwait")
           ELSE LET c1 == self_compile_expression(c, expression.value)
                IN IF Failed(c1) THEN c1
                   ELSE LET c2 == self_emit_no_arg(c1, "GetAwaitable")
                            c3 == self_emit_load_const(c2, ConstNone)
                        IN self_emit_no_arg(c3, "YieldFrom")
      [] expression.k = "YieldFrom" ->
           IF c.ctx.func = "NoFunction" THEN error(c, "InvalidYieldFrom")
           ELSE IF c.ctx.func = "AsyncFunction" THEN error(c, "AsyncYieldFrom")
           ELSE LET c1 == self_mark_generator(c)
                    c2 == self_compile_expression(c1, expression.value)
                IN IF Failed(c2) THEN c2
                   ELSE LET c3 == self_emit_no_arg(c2, "GetIter")
                            c4 == self_emit_load_const(c3, ConstNone)
                        IN self_emit_no_arg(c4, "YieldFrom")
      [] expression.k = "Name" -> self_load_name(c, expression.id)
      [] expression.k = "Lambda" ->
           self_compile_lambda(c, expression.parameters, expression.body)
      [] expression.k = "Starred" -> error(c, "InvalidStarExpr")
      [] expression.k = "If" ->
           LET nb1 == self_new_block(c)
               else_block == nb1.idx
               nb2 == self_new_block(nb1.c)
               after_block == nb2.idx
               c1 == self_compile_jump_if(nb2.c, expression.test, FALSE, else_block)
           IN IF Failed(c1) THEN c1
              ELSE LET c2 == self_compile_expression(c1, expression.body)
                   IN IF Failed(c2) THEN c2
                      ELSE LET c3 == self_emit_target(c2, "Jump", after_block)
                               c4 == self_switch_to_block(c3, else_block)
                               c5 == self_compile_expression(c4, expression.orelse)
                           IN IF Failed(c5) THEN c5 ELSE self_switch_to_block(c5, after_block)
      [] expression.k = "Named" ->
           LET c1 == self_compile_expression(c, expression.value)
           IN IF Failed(c1) THEN c1
              ELSE self_compile_store(self_emit_no_arg(c1, "Duplicate"), expression.target)
      [] expression.k \in {"ListComp", "SetComp", "DictComp", "Generator"} ->
           self_comprehension_arm(c, expression)
      [] expression.k = "Call" -> self_compile_call(c, expression.func, expression.arguments)
      [] expression.k = "StringLiteral" -> self_emit_load_const(c, ConstStr(expression.value))
      [] expression.k = "NumberLiteral" -> self_emit_load_const(c, ConstInteger(expression.value))
      [] expression.k = "BooleanLiteral" -> self_emit_load_const(c, ConstBoolean(expression.value))
      [] expression.k = "NoneLiteral" -> self_emit_load_const(c, ConstNone)
      [] expression.k = "EllipsisLiteral" -> self_emit_load_const(c, ConstEllipsis)

compile_store(c, target) ==
    CASE target.k = "Name" -> self_store_name(c, target.id)
      [] target.k = "Subscript" ->
           LET c1 == self_compile_expression(c, target.value)
           IN IF Failed(c1) THEN c1
              ELSE LET c2 == self_compile_expression(c1, target.slice)
                   IN IF Failed(c2) THEN c2 ELSE self_emit_no_arg(c2, "StoreSubscript")
      [] target.k = "Attribute" ->
           LET c1 == self_check_forbidden_name(c, target.attr, "Store")
           IN IF Failed(c1) THEN c1
              ELSE LET c2 == self_compile_expression(c1, target.value)
                   IN IF Failed(c2) THEN c2
                      ELSE LET r == self_name(c2, target.attr)
                           IN self_emit_arg(r.c, "StoreAttr", r.idx)
      [] target.k = "Starred" ->
           error(c, "SyntaxError: starred assignment target must be in a list or tuple")
      [] target.k \notin {"Name", "Subscript", "Attribute", "Starred", "List", "Tuple"} ->
           error(c, "Assign")

compile_delete(c, expression) ==
    CASE expression.k = "Name" -> self_compile_name(c, expression.id, "Delete")
      [] expression.k = "Attribute" ->
           LET c1 == self_check_forbidden_name(c, expression.attr, "Delete")
           IN IF Failed(c1) THEN c1
              ELSE LET c2 == self_compile_expression(c1, expression.value)
                   IN IF Failed(c2) THEN c2
                      ELSE LET r == self_name(c2, expression.attr)
                           IN self_emit_arg(r.c, "DeleteAttr", r.idx)
      [] expression.k = "Subscript" ->
           LET c1 == self_compile_expression(c, expression.value)
           IN IF Failed(c1) THEN c1
              ELSE LET c2 == self_compile_expression(c1, expression.slice)
                   IN IF Failed(c2) THEN c2 ELSE self_emit_no_arg(c2, "DeleteSubscript")
      [] expression.k \notin {"Name", "Attribute", "Subscript", "Tuple", "List"} ->
           error(c, "Delete")

(***************************************************************************)
(* Statements.                                                             *)
(***************************************************************************)
\* clean_doc strips the leading whitespace of a docstring.  The docstrings of
\* the model are one-line strings; the indented one is IndentedDoc.
IndentedDoc == "  doc"

clean_doc(doc) == IF doc = IndentedDoc THEN "doc" ELSE doc

split_doc(body, opts) ==
    IF body # <<>> /\ Head(body).k = "Expr" /\ Head(body).value.k = "StringLiteral"
    THEN IF opts.optimize < 2
         THEN [doc |-> Some(clean_doc(Head(body).value.value)), body |-> Tail(body)]
         ELSE [doc |-> None, body |-> Tail(body)]
    ELSE [doc |-> None, body |-> body]

RECURSIVE find_ann(_)
find_ann(body) ==
    \E i \in 1..Len(body) :
        LET statement == body[i]
        IN CASE statement.k = "AnnAssign" -> TRUE
             [] statement.k \in {"For", "While"} ->
                  find_ann(statement.body) \/ find_ann(statement.orelse)
             [] statement.k = "If" ->
                  find_ann(statement.body)
                  \/ \E j \in 1..Len(statement.elif_else_clauses) :
                        find_ann(statement.elif_else_clauses[j].body)
             [] statement.k = "With" -> find_ann(statement.body)
             [] statement.k = "Try" ->
                  find_ann(statement.body) \/ find_ann(statement.orelse)
                  \/ find_ann(statement.finalbody)
             [] OTHER -> FALSE

load_docstring(c, doc_str) ==
    self_emit_load_const(c, IF doc_str # None THEN ConstStr(doc_str[1]) ELSE ConstNone)

prepare_decorators(c, decorator_list) == self_compile_expressions(c, decorator_list)

RECURSIVE apply_decorators(_, _)
apply_decorators(c, decorator_list) ==
    IF decorator_list = <<>> THEN c
    ELSE self_apply_decorators(self_emit_arg(c, "CallFunctionPositional", 1), Tail(decorator_list))

FutureFeatures ==
    {"nested_scopes", "generators", "division", "absolute_import", "with_statement",
     "print_function", "unicode_literals", "generator_stop"}

RECURSIVE future_features(_, _)
future_features(c, features) ==
    IF features = <<>> THEN c
    ELSE LET feature == Head(features).name
         IN IF feature \in FutureFeatures THEN self_future_features(c, Tail(features))
            ELSE IF feature = "annotations"
            THEN self_future_features([c EXCEPT !.future_annotations = TRUE], Tail(features))
            ELSE error(c, "InvalidFutureFeature")

compile_future_features(c, features) ==
    IF c.done_with_future_stmts = "Yes" THEN error(c, "InvalidFuturePlacement")
    ELSE self_future_features([c EXCEPT !.done_with_future_stmts = "DoneWithDoc"], features)

\* the loop of ImportFrom over the imported names
RECURSIVE import_from_names(_, _)
import_from_names(c, names) ==
    IF names = <<>> THEN c
    ELSE LET r == self_name(c, Head(names).name)
             c1 == self_emit_arg(r.c, "ImportFrom", r.idx)
             c2 == self_store_name(c1, IF Head(names).asname # None
                                  THEN Head(names).asname[1] ELSE Head(names).name)
         IN IF Failed(c2) THEN c2 ELSE self_import_from_names(c2, Tail(names))

compile_import_from(c, level, module, names) ==
    LET import_star == \E i \in 1..Len(names) : names[i].name = "*"
    IN IF import_star /\ in_func(c.ctx) THEN error(c, "FunctionImportStar")
       ELSE LET from_list == IF import_star THEN <<ConstStr("*")>>
                             ELSE [i \in 1..Len(names) |-> ConstStr(names[i].name)]
                r == IF module # None THEN self_name(c, module[1]) ELSE [c |-> c, idx |-> NULL]
                c1 == self_emit_load_const(r.c, ConstInteger(level))
                c2 == self_emit_load_const(c1, ConstTuple(from_list))
                c3 == IF module # None THEN self_emit_arg(c2, "ImportName", r.idx)
                      ELSE self_emit_no_arg(c2, "ImportNameless")
            IN IF import_star THEN self_emit_no_arg(c3, "ImportStar")
               ELSE LET c4 == self_import_from_names(c3, names)
                    IN IF Failed(c4) THEN c4 ELSE self_emit_no_arg(c4, "Pop")

\* the `for clause in rest` loop of Stmt::If: the elif clauses before the tail
RECURSIVE compile_elif_clauses(_, _, _, _)
compile_elif_clauses(c, rest, next_block, after_block) ==
    IF rest = <<>> THEN [c |-> c, next_block |-> next_block]
    ELSE LET clause == Head(rest)
             c1 == self_switch_to_block(c, next_block)
             nb == self_new_block(c1)
         IN IF clause.test = None
            THEN [c |-> error(nb.c, "panic: unreachable"), next_block |-> nb.idx]
            ELSE LET c2 == self_compile_jump_if(nb.c, clause.test[1], FALSE, nb.idx)
                     c3 == IF Failed(c2) THEN c2 ELSE self_compile_statements(c2, clause.body)
                 IN IF Failed(c3) THEN [c |-> c3, next_block |-> nb.idx]
                    ELSE self_compile_elif_clauses(self_emit_target(c3, "Jump", after_block),
                                              Tail(rest), nb.idx, after_block)

compile_if(c, test, body, elif_else_clauses) ==
    IF elif_else_clauses = <<>>
    THEN LET nb == self_new_block(c)
             after_block == nb.idx
             c1 == self_compile_jump_if(nb.c, test, FALSE, after_block)
             c2 == IF Failed(c1) THEN c1 ELSE self_compile_statements(c1, body)
         IN IF Failed(c2) THEN c2 ELSE self_switch_to_block(c2, after_block)
    ELSE LET rest == Front(elif_else_clauses)
             tail == Last(elif_else_clauses)
             nb1 == self_new_block(c)
             after_block == nb1.idx
             nb2 == self_new_block(nb1.c)
             c1 == self_compile_jump_if(nb2.c, test, FALSE, nb2.idx)
             c2 == IF Failed(c1) THEN c1 ELSE self_compile_statements(c1, body)
         IN IF Failed(c2) THEN c2
            ELSE LET r == self_compile_elif_clauses(self_emit_target(c2, "Jump", after_block),
                                               rest, nb2.idx, after_block)
                 IN IF Failed(r.c) THEN r.c
                    ELSE LET c3 == self_switch_to_block(r.c, r.next_block)
                             c4 == IF tail.test # None
                                   THEN self_compile_jump_if(c3, tail.test[1], FALSE, after_block)
                                   ELSE c3
                             c5 == IF Failed(c4) THEN c4
                                   ELSE self_compile_statements(c4, tail.body)
                         IN IF Failed(c5) THEN c5 ELSE self_switch_to_block(c5, after_block)

set_loop_data(c, loop_data) == self_set_ctx(c, [c.ctx EXCEPT !.loop_data = loop_data])

\* compile_while with a fault: the loop's targets stay in force after its
\* body.
compile_while_keeps_loop_data(c, test, body, orelse) ==
    LET nb1 == self_new_block(c)
        while_block == nb1.idx
        nb2 == self_new_block(nb1.c)
        else_block == nb2.idx
        nb3 == self_new_block(nb2.c)
        after_block == nb3.idx
        c1 == self_emit_no_arg(nb3.c, "SetupLoop")
        c2 == self_switch_to_block(c1, while_block)
        c3 == self_compile_jump_if(c2, test, FALSE, else_block)
    IN IF Failed(c3) THEN c3
       ELSE LET c4 == self_compile_statements(
                          self_set_loop_data(c3, Some(<<while_block, after_block>>)), body)
            IN IF Failed(c4) THEN c4
               ELSE LET c6 == self_emit_target(c4, "Jump", while_block)
                        c7 == self_switch_to_block(c6, else_block)
                        c8 == self_emit_no_arg(c7, "PopBlock")
                        c9 == self_compile_statements(c8, orelse)
                    IN IF Failed(c9) THEN c9 ELSE self_switch_to_block(c9, after_block)

compile_while(c, test, body, orelse) ==
    LET nb1 == self_new_block(c)
        while_block == nb1.idx
        nb2 == self_new_block(nb1.c)
        else_block == nb2.idx
        nb3 == self_new_block(nb2.c)
        after_block == nb3.idx
        c1 == self_emit_no_arg(nb3.c, "SetupLoop")
        c2 == self_switch_to_block(c1, while_block)
        c3 == self_compile_jump_if(c2, test, FALSE, else_block)
    IN IF Failed(c3) THEN c3
       ELSE LET was_in_loop == c3.ctx.loop_data
                c4 == self_compile_statements(
                          self_set_loop_data(c3, Some(<<while_block, after_block>>)), body)
            IN IF Failed(c4) THEN c4
               ELSE LET c5 == self_set_loop_data(c4, was_in_loop)
                        c6 == self_emit_target(c5, "Jump", while_block)
                        c7 == self_switch_to_block(c6, else_block)
                        c8 == self_emit_no_arg(c7, "PopBlock")
                        c9 == self_compile_statements(c8, orelse)
                    IN IF Failed(c9) THEN c9 ELSE self_switch_to_block(c9, after_block)

compile_for(c, target, iter, body, orelse, is_async) ==
    LET nb1 == self_new_block(c)
        for_block == nb1.idx
        nb2 == self_new_block(nb1.c)
        else_block == nb2.idx
        nb3 == self_new_block(nb2.c)
        after_block == nb3.idx
        c1 == self_emit_no_arg(nb3.c, "SetupLoop")
        c2 == self_compile_expression(c1, iter)
    IN IF Failed(c2) THEN c2
       ELSE LET c3 == IF is_async
                      THEN LET a1 == self_emit_no_arg(c2, "GetAIter")
                               a2 == self_switch_to_block(a1, for_block)
                               a3 == self_emit_target(a2, "SetupExcept", else_block)
                               a4 == self_emit_no_arg(a3, "GetANext")
                               a5 == self_emit_load_const(a4, ConstNone)
                               a6 == self_emit_no_arg(a5, "YieldFrom")
                               a7 == self_compile_store(a6, target)
                           IN IF Failed(a7) THEN a7 ELSE self_emit_no_arg(a7, "PopBlock")
                      ELSE LET s1 == self_emit_no_arg(c2, "GetIter")
                               s2 == self_switch_to_block(s1, for_block)
                               s3 == self_emit_target(s2, "ForIter", else_block)
                           IN self_compile_store(s3, target)
            IN IF Failed(c3) THEN c3
               ELSE LET was_in_loop == c3.ctx.loop_data
                        c4 == self_compile_statements(
                                  self_set_loop_data(c3, Some(<<for_block, after_block>>)), body)
                    IN IF Failed(c4) THEN c4
                       ELSE LET c5 == self_set_loop_data(c4, was_in_loop)
                                c6 == self_emit_target(c5, "Jump", for_block)
                                c7 == self_switch_to_block(c6, else_block)
                                c8 == IF is_async THEN self_emit_no_arg(c7, "EndAsyncFor") ELSE c7
                                c9 == self_emit_no_arg(c8, "PopBlock")
                                c10 == self_compile_statements(c9, orelse)
                            IN IF Failed(c10) THEN c10
                               ELSE self_switch_to_block(c10, after_block)

\* the `for handler in handlers` loop of compile_try_statement
RECURSIVE compile_try_handlers(_, _, _, _)
compile_try_handlers(c, handlers, finally_block, has_finalbody) ==
    IF handlers = <<>> THEN c
    ELSE LET handler == Head(handlers)
             nb == self_new_block(c)
             next_handler == nb.idx
             c1 == IF handler.type_ # None
                   THEN LET t1 == self_emit_no_arg(nb.c, "Duplicate")
                            t2 == self_compile_expression(t1, handler.type_[1])
                        IN IF Failed(t2) THEN t2
                           ELSE LET t3 == self_emit_sub(t2, "TestOperation", "ExceptionMatch")
                                    t4 == self_emit_target(t3, "JumpIfFalse", next_handler)
                                IN IF handler.name # None
                                   THEN self_store_name(t4, handler.name[1])
                                   ELSE self_emit_no_arg(t4, "Pop")
                   ELSE self_emit_no_arg(nb.c, "Pop")
             c2 == IF Failed(c1) THEN c1 ELSE self_compile_statements(c1, handler.body)
         IN IF Failed(c2) THEN c2
            ELSE LET c3 == self_emit_no_arg(c2, "PopException")
                     c4 == IF has_finalbody
                           THEN self_emit_no_arg(self_emit_no_arg(c3, "PopBlock"), "EnterFinally")
                           ELSE c3
                     c5 == self_emit_target(c4, "Jump", finally_block)
                     c6 == self_switch_to_block(c5, next_handler)
                 IN self_compile_try_handlers(c6, Tail(handlers), finally_block, has_finalbody)

\* compile_try_statement with a fault: the normal path also runs a copy of the
\* finally body before it enters the finally block.
compile_try_statement_inline_finally(c, body, handlers, orelse, finalbody) ==
    LET nb1 == self_new_block(c)
        handler_block == nb1.idx
        nb2 == self_new_block(nb1.c)
        finally_block == nb2.idx
        has_finalbody == finalbody # <<>>
        c1 == IF has_finalbody THEN self_emit_target(nb2.c, "SetupFinally", finally_block)
              ELSE nb2.c
        nb3 == self_new_block(c1)
        else_block == nb3.idx
        c2 == self_emit_target(nb3.c, "SetupExcept", handler_block)
        c3 == self_compile_statements(c2, body)
    IN IF Failed(c3) THEN c3
       ELSE LET c4 == self_emit_no_arg(c3, "PopBlock")
                c5 == self_emit_target(c4, "Jump", else_block)
                c6 == self_switch_to_block(c5, handler_block)
                c7 == self_compile_try_handlers(c6, handlers, finally_block, has_finalbody)
            IN IF Failed(c7) THEN c7
               ELSE LET c8 == self_emit_sub(c7, "Raise", "Reraise")
                        c9 == self_switch_to_block(c8, else_block)
                        c10 == self_compile_statements(self_compile_statements(c9, orelse), finalbody)
                    IN IF Failed(c10) THEN c10
                       ELSE LET c11 == IF has_finalbody
                                       THEN self_emit_no_arg(self_emit_no_arg(c10, "PopBlock"),
                                                        "EnterFinally")
                                       ELSE c10
                                c12 == self_switch_to_block(c11, finally_block)
                            IN IF has_finalbody
                               THEN LET c13 == self_compile_statements(c12, finalbody)
                                    IN IF Failed(c13) THEN c13
                                       ELSE self_emit_no_arg(c13, "EndFinally")
                               ELSE c12

compile_try_statement(c, body, handlers, orelse, finalbody) ==
    LET nb1 == self_new_block(c)
        handler_block == nb1.idx
        nb2 == self_new_block(nb1.c)
        finally_block == nb2.idx
        has_finalbody == finalbody # <<>>
        c1 == IF has_finalbody THEN self_emit_target(nb2.c, "SetupFinally", finally_block)
              ELSE nb2.c
        nb3 == self_new_block(c1)
        else_block == nb3.idx
        c2 == self_emit_target(nb3.c, "SetupExcept", handler_block)
        c3 == self_compile_statements(c2, body)
    IN IF Failed(c3) THEN c3
       ELSE LET c4 == self_emit_no_arg(c3, "PopBlock")
                c5 == self_emit_target(c4, "Jump", else_block)
                c6 == self_switch_to_block(c5, handler_block)
                c7 == self_compile_try_handlers(c6, handlers, finally_block, has_finalbody)
            IN IF Failed(c7) THEN c7
               ELSE LET c8 == self_emit_sub(c7, "Raise", "Reraise")
                        c9 == self_switch_to_block(c8, else_block)
                        c10 == self_compile_statements(c9, orelse)
                    IN IF Failed(c10) THEN c10
                       ELSE LET c11 == IF has_finalbody
                                       THEN self_emit_no_arg(self_emit_no_arg(c10, "PopBlock"),
                                                        "EnterFinally")
                                       ELSE c10
                                c12 == self_switch_to_block(c11, finally_block)
                            IN IF has_finalbody
                               THEN LET c13 == self_compile_statements(c12, finalbody)
                                    IN IF Failed(c13) THEN c13
                                       ELSE self_emit_no_arg(c13, "EndFinally")
                               ELSE c12

compile_try_star_statement(c, body, handlers, orelse, finalbody) ==
    error(c, "NotImplementedYet")

\* qualified_path.join(".")
RECURSIVE join(_)
join(path) ==
    IF path = <<>> THEN ""
    ELSE IF Len(path) = 1 THEN path[1]
    ELSE path[1] \o "." \o join(Tail(path))

push_qualified_path(c, id) ==
    IF Failed(c) THEN c ELSE [c EXCEPT !.qualified_path = Append(@, id)]

pop_qualified_path(c) ==
    IF Failed(c) THEN c ELSE [c EXCEPT !.qualified_path = Front(@)]

\* `if let Some(doc) = doc_str { ... StoreAttr __doc__ }` of compile_function_def
store_docstring(c, doc) ==
    IF doc = None THEN c
    ELSE LET d1 == self_emit_no_arg(c, "Duplicate")
             d2 == self_emit_load_const(d1, ConstStr(doc[1]))
             d3 == self_emit_no_arg(d2, "Rotate2")
         IN self_emit_name(d3, "StoreAttr", "__doc__")

\* compile_function_def from `let code = self.pop_code_object()` on: the
\* function object made of the code object of the body, and its binding
make_function(c, prev_ctx, flags, qualified_name, doc, fname, decorator_list) ==
    LET popped == self_pop_code_object(c)
    IN IF Failed(popped.c) THEN popped.c
       ELSE LET co == popped.code[1]
                c9 == leave_scope(self_set_ctx(self_pop_qualified_path(
                          self_pop_qualified_path(popped.c)), prev_ctx), "function", prev_ctx)
                bc == self_build_closure(c9, co)
                func_flags == flags \cup (IF bc.closure THEN {"CLOSURE"} ELSE {})
                c10 == self_emit_load_const(bc.c, ConstCode(co))
                c11 == self_emit_load_const(c10, ConstStr(qualified_name))
                c12 == self_emit_arg(c11, "MakeFunction", flag_bits(func_flags))
                c13 == store_docstring(c12, doc)
            IN self_store_name(self_apply_decorators(c13, decorator_list), fname)

compile_function_def(c, fname, parameters, body, decorator_list, is_async) ==
    LET c1 == self_prepare_decorators(c, decorator_list)
    IN IF Failed(c1) THEN c1
       ELSE LET ef == self_enter_function(c1, fname, parameters)
            IN IF Failed(ef.c) THEN ef.c
               ELSE LET c2 == self_set_flag(ef.c, "IS_COROUTINE", is_async)
                        prev_ctx == c2.ctx
                        c3 == self_set_ctx(c2, CompileContext(None, prev_ctx.in_class,
                                  IF is_async THEN "AsyncFunction" ELSE "Function"))
                        c4 == self_push_qualified_path(c3, fname)
                        qualified_name == join(c4.qualified_path)
                        c5 == self_push_qualified_path(c4, "<locals>")
                        sd == split_doc(body, c5.opts)
                        c6 == self_arg_constant(c5, ConstNone).c
                        c7 == self_compile_statements(c6, sd.body)
                        c8 == IF sd.body # <<>> /\ Last(sd.body).k = "Return"
                              THEN c7 ELSE self_emit_return_const(c7, ConstNone)
                    IN IF Failed(c7) THEN c7
                       ELSE make_function(c8, prev_ctx, ef.func_flags, qualified_name,
                                          sd.doc, fname, decorator_list)

\* compile_class_def from `let classcell_idx = ...` on: the end of the class
\* body, and the call of __build_class__ on the function made of it
make_class(c, prev_ctx, prev_class_name, global_path_prefix, cname, decorator_list) ==
    LET cellvars == current_code_info(c).cellvar_cache
        c12 == IF contains(cellvars, "__class__")
               THEN LET k1 == self_emit_arg(c, "LoadClosure",
                                            get_index_of(cellvars, "__class__"))
                        k2 == self_emit_no_arg(k1, "Duplicate")
                    IN self_emit_name(k2, "StoreLocal", "__classcell__")
               ELSE self_emit_load_const(c, ConstNone)
        c13 == self_emit_return_value(c12)
        popped == self_pop_code_object(c13)
    IN IF Failed(popped.c) THEN popped.c
       ELSE LET co == popped.code[1]
                c14 == leave_scope([popped.c EXCEPT !.class_name = prev_class_name,
                                        !.qualified_path = Front(@) \o global_path_prefix,
                                        !.ctx = prev_ctx], "class", prev_ctx)
                c15 == self_emit_no_arg(c14, "LoadBuildClass")
                bc == self_build_closure(c15, co)
                func_flags == IF bc.closure THEN {"CLOSURE"} ELSE {}
                c16 == self_emit_load_const(bc.c, ConstCode(co))
                c17 == self_emit_load_const(c16, ConstStr(cname))
                c18 == self_emit_arg(c17, "MakeFunction", flag_bits(func_flags))
                c19 == self_emit_load_const(c18, ConstStr(cname))
                c20 == self_emit_arg(c19, "CallFunctionPositional", 2)
            IN self_store_name(self_apply_decorators(c20, decorator_list), cname)

\* the inputs of the model give a class no bases and no keywords
\* (`arguments` is None), so the call is CallType::Positional { nargs: 2 }
compile_class_def(c, cname, body, decorator_list, arguments) ==
    LET c1 == self_prepare_decorators(c, decorator_list)
    IN IF Failed(c1) THEN c1
       ELSE IF ~has_symbol(Last(c1.symbol_table_stack), cname)
       THEN error(c1, "panic: The symbol must be present in the symbol table")
       ELSE
       LET prev_ctx == c1.ctx
           prev_class_name == c1.class_name
           symbol == lookup(Last(c1.symbol_table_stack), cname)
           global_path_prefix == IF symbol.scope = "GlobalExplicit"
                                 THEN c1.qualified_path ELSE <<>>
           c2 == [c1 EXCEPT !.ctx = CompileContext(None, TRUE, "NoFunction"),
                            !.class_name = Some(cname),
                            !.qualified_path =
                                Append(IF symbol.scope = "GlobalExplicit" THEN <<>> ELSE @,
                                       cname)]
           qualified_name == join(c2.qualified_path)
           c3 == self_push_output(c2, {}, 0, 0, 0, cname)
       IN IF Failed(c3) THEN c3
          ELSE
          LET sd == split_doc(body, c3.opts)
              c4 == self_emit_name(c3, "LoadGlobal", "__name__")
              c5 == self_emit_name(c4, "StoreLocal", "__module__")
              c6 == self_emit_load_const(c5, ConstStr(qualified_name))
              c7 == self_emit_name(c6, "StoreLocal", "__qualname__")
              c8 == self_load_docstring(c7, sd.doc)
              c9 == self_emit_name(c8, "StoreLocal", "__doc__")
              c10 == IF find_ann(sd.body) THEN self_emit_no_arg(c9, "SetupAnnotation") ELSE c9
              c11 == self_compile_statements(c10, sd.body)
          IN IF Failed(c11) THEN c11
             ELSE make_class(c11, prev_ctx, prev_class_name, global_path_prefix, cname,
                             decorator_list)

\* the `for (i, target) in targets.iter().enumerate()` loop of Stmt::Assign
RECURSIVE compile_assign_targets(_, _)
compile_assign_targets(c, targets) ==
    IF targets = <<>> THEN c
    ELSE LET c1 == IF Len(targets) # 1 THEN self_emit_no_arg(c, "Duplicate") ELSE c
             c2 == self_compile_store(c1, Head(targets))
         IN IF Failed(c2) THEN c2 ELSE self_compile_assign_targets(c2, Tail(targets))

\* the `for target in targets` loop of Stmt::Delete
RECURSIVE compile_delete_targets(_, _)
compile_delete_targets(c, targets) ==
    IF targets = <<>> THEN c
    ELSE LET c1 == self_compile_delete(c, Head(targets))
         IN IF Failed(c1) THEN c1 ELSE self_compile_delete_targets(c1, Tail(targets))

compile_raise(c, exc, cause) ==
    IF exc = None THEN self_emit_sub(c, "Raise", "Reraise")
    ELSE LET c1 == self_compile_expression(c, exc[1])
         IN IF Failed(c1) THEN c1
            ELSE IF cause = None THEN self_emit_sub(c1, "Raise", "Raise")
            ELSE LET c2 == self_compile_expression(c1, cause[1])
                 IN IF Failed(c2) THEN c2 ELSE self_emit_sub(c2, "Raise", "RaiseCause")

\* compile_assert with a fault: the optimization level is not consulted.
compile_assert_always(c, test, msg) ==
    IF c.opts.optimize >= 0
    THEN LET nb == self_new_block(c)
             after_block == nb.idx
             c1 == self_compile_jump_if(nb.c, test, TRUE, after_block)
         IN IF Failed(c1) THEN c1
            ELSE LET r == self_name(c1, "AssertionError")
                     c2 == self_emit_arg(r.c, "LoadGlobal", r.idx)
                     c3 == IF msg # None
                           THEN LET m == self_compile_expression(c2, msg[1])
                                IN IF Failed(m) THEN m
                                   ELSE self_emit_arg(m, "CallFunctionPositional", 1)
                           ELSE self_emit_arg(c2, "CallFunctionPositional", 0)
                 IN IF Failed(c3) THEN c3
                    ELSE self_switch_to_block(self_emit_sub(c3, "Raise", "Raise"), after_block)
    ELSE c

compile_assert(c, test, msg) ==
    IF c.opts.optimize = 0
    THEN LET nb == self_new_block(c)
             after_block == nb.idx
             c1 == self_compile_jump_if(nb.c, test, TRUE, after_block)
         IN IF Failed(c1) THEN c1
            ELSE LET r == self_name(c1, "AssertionError")
                     c2 == self_emit_arg(r.c, "LoadGlobal", r.idx)
                     c3 == IF msg # None
                           THEN LET m == self_compile_expression(c2, msg[1])
                                IN IF Failed(m) THEN m
                                   ELSE self_emit_arg(m, "CallFunctionPositional", 1)
                           ELSE self_emit_arg(c2, "CallFunctionPositional", 0)
                 IN IF Failed(c3) THEN c3
                    ELSE self_switch_to_block(self_emit_sub(c3, "Raise", "Raise"), after_block)
    ELSE c

\* compile_with with a fault: the exit of an item is emitted before what the
\* item encloses, so the items follow one another instead of nesting.
compile_with_unnested(c, items, body, is_async) ==
    IF items = <<>> THEN error(c, "EmptyWithItems")
    ELSE LET item == Head(items)
             nb == self_new_block(c)
             final_block == nb.idx
             c1 == self_compile_expression(nb.c, item.context_expr)
         IN IF Failed(c1) THEN c1
            ELSE LET c2 == IF is_async
                           THEN self_emit_target(
                                    self_emit_no_arg(
                                        self_emit_load_const(
                                            self_emit_no_arg(
                                                self_emit_no_arg(c1, "BeforeAsyncWith"),
                                                "GetAwaitable"),
                                            ConstNone),
                                        "YieldFrom"),
                                    "SetupAsyncWith", final_block)
                           ELSE self_emit_target(c1, "SetupWith", final_block)
                     c3 == IF item.optional_vars # None
                           THEN self_compile_store(c2, item.optional_vars[1])
                           ELSE self_emit_no_arg(c2, "Pop")
                 IN IF Failed(c3) THEN c3
                    ELSE LET c5 == self_emit_no_arg(c3, "PopBlock")
                             c6 == self_emit_no_arg(c5, "EnterFinally")
                             c7 == self_switch_to_block(c6, final_block)
                             c8 == self_emit_no_arg(c7, "WithCleanupStart")
                             c9 == IF is_async
                                   THEN self_emit_no_arg(
                                            self_emit_load_const(
                                                self_emit_no_arg(c8, "GetAwaitable"),
                                                ConstNone),
                                            "YieldFrom")
                                   ELSE c8
                             c10 == self_emit_no_arg(c9, "WithCleanupFinish")
                         IN IF Tail(items) = <<>>
                            THEN (IF body = <<>> THEN error(c10, "EmptyWithBody")
                                  ELSE self_compile_statements(c10, body))
                            ELSE self_compile_with(c10, Tail(items), body, is_async)

\* with a, b: body -> start_with(a) start_with(b) body() end_with(b) end_with(a)
compile_with(c, items, body, is_async) ==
    IF items = <<>> THEN error(c, "EmptyWithItems")
    ELSE LET item == Head(items)
             nb == self_new_block(c)
             final_block == nb.idx
             c1 == self_compile_expression(nb.c, item.context_expr)
         IN IF Failed(c1) THEN c1
            ELSE LET c2 == IF is_async
                           THEN self_emit_target(
                                    self_emit_no_arg(
                                        self_emit_load_const(
                                            self_emit_no_arg(
                                                self_emit_no_arg(c1, "BeforeAsyncWith"),
                                                "GetAwaitable"),
                                            ConstNone),
                                        "YieldFrom"),
                                    "SetupAsyncWith", final_block)
                           ELSE self_emit_target(c1, "SetupWith", final_block)
                     c3 == IF item.optional_vars # None
                           THEN self_compile_store(c2, item.optional_vars[1])
                           ELSE self_emit_no_arg(c2, "Pop")
                 IN IF Failed(c3) THEN c3
                    ELSE LET c4 == IF Tail(items) = <<>>
                                   THEN (IF body = <<>> THEN error(c3, "EmptyWithBody")
                                         ELSE self_compile_statements(c3, body))
                                   ELSE self_compile_with(c3, Tail(items), body, is_async)
                         IN IF Failed(c4) THEN c4
                            ELSE LET c5 == self_emit_no_arg(c4, "PopBlock")
                                     c6 == self_emit_no_arg(c5, "EnterFinally")
                                     c7 == self_switch_to_block(c6, final_block)
                                     c8 == self_emit_no_arg(c7, "WithCleanupStart")
                                     c9 == IF is_async
                                           THEN self_emit_no_arg(
                                                    self_emit_load_const(
                                                        self_emit_no_arg(c8, "GetAwaitable"),
                                                        ConstNone),
                                                    "YieldFrom")
                                           ELSE c8
                                 IN self_emit_no_arg(c9, "WithCleanupFinish")

\* compile_return with a fault: the enclosing function is not required.
compile_return_anywhere(c, value) ==
    IF value = None THEN self_emit_return_const(c, ConstNone)
    ELSE IF c.ctx.func = "AsyncFunction"
            /\ "IS_GENERATOR" \in current_code_info(c).flags
    THEN error(c, "AsyncReturnValue")
    ELSE LET c1 == self_compile_expression(c, value[1])
         IN IF Failed(c1) THEN c1 ELSE self_emit_return_value(c1)

compile_return(c, value) ==
    IF ~in_func(c.ctx) THEN error(c, "InvalidReturn")
    ELSE IF value = None THEN self_emit_return_const(c, ConstNone)
    ELSE IF c.ctx.func = "AsyncFunction"
            /\ "IS_GENERATOR" \in current_code_info(c).flags
    THEN error(c, "AsyncReturnValue")
    ELSE LET c1 == self_compile_expression(c, value[1])
         IN IF Failed(c1) THEN c1 ELSE self_emit_return_value(c1)

\* the first `match` of compile_statement: future statements are accepted
\* only before the first other statement
track_future_stmts(c, statement) ==
    IF statement.k = "ImportFrom" /\ statement.module = Some("__future__")
    THEN self_compile_future_features(c, statement.names)
    ELSE IF statement.k = "Expr" /\ statement.value.k = "StringLiteral"
            /\ c.done_with_future_stmts = "No"
    THEN [c EXCEPT !.done_with_future_stmts = "DoneWithDoc"]
    ELSE [c EXCEPT !.done_with_future_stmts = "Yes"]

(***************************************************************************)
(* The match statement.  A PatternContext holds the blocks of the cases    *)
(* (one per case, and the end block), the index of the case being lowered  *)
(* and whether an irrefutable pattern is allowed there.                    *)
(***************************************************************************)
\* usize::MAX, the index a fresh PatternContext holds before its first case
UsizeMax == 2147483647

PatternContext(current, blocks, allow_irrefutable) ==
    [current_block |-> current, blocks |-> blocks,
     allow_irrefutable |-> allow_irrefutable]

compile_pattern_value(c, value, pattern_context) ==
    LET c1 == self_compile_expression(c, value.value)
    IN IF Failed(c1) THEN c1 ELSE self_emit_sub(c1, "CompareOperation", "Equal")

compile_pattern_as(c, as_pattern, pattern_context) ==
    IF as_pattern.pattern = None /\ ~pattern_context.allow_irrefutable
    THEN error(c, "InvalidMatchCase")
    ELSE LET c1 == self_emit_no_arg(c, "Duplicate")
             c2 == IF as_pattern.pattern # None
                   THEN self_compile_pattern_inner(c1, as_pattern.pattern[1], pattern_context)
                   ELSE c1
         IN IF Failed(c2) THEN c2
            ELSE IF as_pattern.name # None
            THEN self_store_name(c2, as_pattern.name[1])
            ELSE self_emit_no_arg(c2, "Pop")

compile_pattern_inner(c, pattern_type, pattern_context) ==
    CASE pattern_type.k = "MatchValue" ->
           self_compile_pattern_value(c, pattern_type, pattern_context)
      [] pattern_type.k = "MatchAs" ->
           self_compile_pattern_as(c, pattern_type, pattern_context)
      [] OTHER -> error(c, "NotImplementedYet")

compile_pattern(c, pattern_type, pattern_context) ==
    LET c1 == self_compile_pattern_inner(c, pattern_type, pattern_context)
    IN IF Failed(c1) THEN c1
       ELSE self_emit_target(c1, "JumpIfFalse",
                             pattern_context.blocks[pattern_context.current_block + 2])

\* repeat_with(|| self.new_block()).take(n).collect()
new_blocks(c, n) ==
    IF n = 0 THEN [c |-> c, blocks |-> <<>>]
    ELSE LET nb == self_new_block(c)
             rest == self_new_blocks(nb.c, n - 1)
         IN [c |-> rest.c, blocks |-> <<nb.idx>> \o rest.blocks]

\* for i in 0..cases.len() { ... }, from case i on
compile_match_cases(c, cases, i, blocks) ==
    IF i = Len(cases) THEN c
    ELSE LET end_block == Last(blocks)
             m == cases[i + 1]
             pattern_context ==
                 PatternContext(i, blocks, m.guard # None \/ i = Len(cases) - 1)
             c1 == self_switch_to_block(c, blocks[i + 1])
             c2 == IF i # Len(cases) - 1 THEN self_emit_no_arg(c1, "Duplicate") ELSE c1
             c3 == self_compile_pattern(c2, m.pattern, pattern_context)
             c4 == IF Failed(c3) THEN c3 ELSE self_compile_statements(c3, m.body)
         IN IF Failed(c4) THEN c4
            ELSE self_compile_match_cases(self_emit_target(c4, "Jump", end_block),
                                          cases, i + 1, blocks)

\* code.blocks[a].next = b, a write that does not go through switch_to_block
set_next(c, a, b) ==
    LET info == current_code_info(c)
        old == info.blocks[a + 1].next
        c1 == set_code_info(c, [info EXCEPT !.blocks[a + 1].next = b])
    IN IF old # NULL /\ old # b
       THEN [c1 EXCEPT !.next_changes = Append(@, <<a, old, b>>)]
       ELSE c1

\* blocks.iter().zip(blocks.iter().skip(1)).for_each(|(a, b)| blocks[a].next = b)
link_match_blocks(c, blocks) ==
    IF Len(blocks) < 2 THEN c
    ELSE self_link_match_blocks(set_next(c, blocks[1], blocks[2]), Tail(blocks))

compile_match_inner(c, subject, cases, pattern_context) ==
    LET c1 == self_compile_expression(c, subject)
    IN IF Failed(c1) THEN c1
       ELSE LET nbs == self_new_blocks(c1, Len(cases) + 1)
            IN IF cases = <<>> THEN error(nbs.c, "panic: cases is not empty")
               ELSE LET c2 == self_compile_match_cases(nbs.c, cases, 0, nbs.blocks)
                    IN IF Failed(c2) THEN c2
                       ELSE self_link_match_blocks(
                                self_switch_to_block(c2, Last(nbs.blocks)), nbs.blocks)

compile_match(c, subject, cases) ==
    self_compile_match_inner(c, subject, cases, PatternContext(UsizeMax, <<>>, FALSE))


compile_statement(c, statement) ==
    LET c0 == self_track_future_stmts(c, statement)
    IN IF Failed(c0) THEN c0
       ELSE
       CASE statement.k = "Match" ->
              self_compile_match(c0, statement.subject, statement.cases)
         [] statement.k = "AugAssign" ->
              self_compile_augassign(c0, statement.target, statement.op, statement.value)
         [] statement.k = "ImportFrom" ->
              self_compile_import_from(c0, statement.level, statement.module, statement.names)
         [] statement.k = "Expr" ->
              LET c1 == self_compile_expression(c0, statement.value)
              IN IF Failed(c1) THEN c1 ELSE self_emit_no_arg(c1, "Pop")
         [] statement.k \in {"Global", "Nonlocal", "Pass"} -> c0
         [] statement.k = "If" ->
              self_compile_if(c0, statement.test, statement.body, statement.elif_else_clauses)
         [] statement.k = "While" ->
              self_compile_while(c0, statement.test, statement.body, statement.orelse)
         [] statement.k = "With" ->
              self_compile_with(c0, statement.items, statement.body, statement.is_async)
         [] statement.k = "For" ->
              self_compile_for(c0, statement.target, statement.iter, statement.body,
                          statement.orelse, statement.is_async)
         [] statement.k = "Raise" -> self_compile_raise(c0, statement.exc, statement.cause)
         [] statement.k = "Try" ->
              IF statement.is_star
              THEN self_compile_try_star_statement(c0, statement.body, statement.handlers,
                                              statement.orelse, statement.finalbody)
              ELSE self_compile_try_statement(c0, statement.body, statement.handlers,
                                         statement.orelse, statement.finalbody)
         [] statement.k = "FunctionDef" ->
              self_compile_function_def(c0, statement.name, statement.parameters,
                                   statement.body, statement.decorator_list,
                                   statement.is_async)
         [] statement.k = "ClassDef" ->
              self_compile_class_def(c0, statement.name, statement.body,
                                statement.decorator_list, statement.arguments)
         [] statement.k = "Assert" -> self_compile_assert(c0, statement.test, statement.msg)
         [] statement.k = "Break" ->
              IF c0.ctx.loop_data # None
              THEN self_emit_target(c0, "Break", c0.ctx.loop_data[1][2])
              ELSE error(c0, "InvalidBreak")
         [] statement.k = "Continue" ->
              IF c0.ctx.loop_data # None
              THEN self_emit_target(c0, "Continue", c0.ctx.loop_data[1][1])
              ELSE error(c0, "InvalidContinue")
         [] statement.k = "Return" -> self_compile_return(c0, statement.value)
         [] statement.k = "Assign" ->
              LET c1 == self_compile_expression(c0, statement.value)
              IN IF Failed(c1) THEN c1 ELSE self_compile_assign_targets(c1, statement.targets)
         [] statement.k = "Delete" -> self_compile_delete_targets(c0, statement.targets)

\* compile_statements with a fault: the error of a statement is dropped and
\* the statements after it are lowered.
compile_statements_past_errors(c, statements) ==
    IF statements = <<>> THEN c
    ELSE LET c1 == self_compile_statement(c, Head(statements))
         IN self_compile_statements([c1 EXCEPT !.error = NoError], Tail(statements))

compile_statements(c, statements) ==
    IF statements = <<>> THEN c
    ELSE LET c1 == self_compile_statement(c, Head(statements))
         IN IF Failed(c1) THEN c1 ELSE self_compile_statements(c1, Tail(statements))

(***************************************************************************)
(* SymbolTable::scan_program.  The pass that builds the symbol tables runs *)
(* before code generation; what the compiler consumes of it is one table   *)
(* per scope, holding a symbol for every (mangled) name the scope uses,    *)
(* and the tables of the nested scopes in the order the compiler enters    *)
(* them.  A scope is first flattened to the events that concern its table: *)
(* loads, stores, global declarations and nested scopes.                   *)
(***************************************************************************)
EvLoad(id) == [e |-> "load", n |-> id]
EvStore(id) == [e |-> "store", n |-> id]
EvGlobal(id) == [e |-> "global", n |-> id]
EvScope(typ, cname, params, body) ==
    [e |-> "scope", typ |-> typ, cname |-> cname, params |-> params, body |-> body]

parameter_names(parameters) ==
    LET ps == parameters.posonlyargs \o parameters.args \o parameters.kwonlyargs
    IN [i \in 1..Len(ps) |-> ps[i].parameter.name]
       \o (IF parameters.vararg = None THEN <<>> ELSE <<parameters.vararg[1].name>>)
       \o (IF parameters.kwarg = None THEN <<>> ELSE <<parameters.kwarg[1].name>>)

parameter_defaults(parameters) ==
    LET ps == parameters.posonlyargs \o parameters.args \o parameters.kwonlyargs
        with_default == SeqFilter(ps, {p \in Range(ps) : p.default # None})
    IN [i \in 1..Len(with_default) |-> with_default[i].default[1]]

\* the uses of names in the scope of a comprehension, as statements: each
\* generator binds its target from its iterable (the first from the argument
\* `.0`) and evaluates its conditions, then the element is evaluated
comprehension_scope(expression) ==
    LET gens == expression.generators
        bind(i) == <<StmtAssign(<<gens[i].target>>,
                                IF i = 1 THEN ExprName(".0") ELSE gens[i].iter)>>
                   \o [j \in 1..Len(gens[i].ifs) |-> StmtExpr(gens[i].ifs[j])]
    IN Flatten([i \in 1..Len(gens) |-> bind(i)])
       \o (IF expression.k = "DictComp"
           THEN <<StmtExpr(expression.key), StmtExpr(expression.value)>>
           ELSE <<StmtExpr(expression.elt)>>)

RECURSIVE expr_events(_), exprs_events(_), target_events(_)
expr_events(expression) ==
    CASE expression.k = "Name" -> <<EvLoad(expression.id)>>
      [] expression.k = "BoolOp" -> exprs_events(expression.values)
      [] expression.k = "BinOp" ->
           expr_events(expression.left) \o expr_events(expression.right)
      [] expression.k = "UnaryOp" -> expr_events(expression.operand)
      [] expression.k = "Compare" ->
           expr_events(expression.left) \o exprs_events(expression.comparators)
      [] expression.k = "Yield" -> exprs_events(expression.value)
      [] expression.k \in {"YieldFrom", "Await", "Attribute", "Starred"} ->
           expr_events(expression.value)
      [] expression.k = "Subscript" ->
           expr_events(expression.value) \o expr_events(expression.slice)
      [] expression.k = "If" ->
           expr_events(expression.test) \o expr_events(expression.body)
           \o expr_events(expression.orelse)
      [] expression.k = "Named" ->
           expr_events(expression.value) \o target_events(expression.target)
      [] expression.k = "Lambda" ->
           LET parameters == IF expression.parameters = None THEN NoParameters
                             ELSE expression.parameters[1]
           IN exprs_events(parameter_defaults(parameters))
              \o <<EvScope("Function", None, parameter_names(parameters),
                           <<StmtExpr(expression.body)>>)>>
      [] expression.k = "Call" ->
           expr_events(expression.func) \o exprs_events(expression.arguments.args)
           \o exprs_events([i \in 1..Len(expression.arguments.keywords) |->
                               expression.arguments.keywords[i].value])
      [] expression.k \in {"ListComp", "SetComp", "DictComp", "Generator"} ->
           expr_events(expression.generators[1].iter)
           \o <<EvScope("Comprehension", None, <<".0">>, comprehension_scope(expression))>>
      [] OTHER -> <<>>

exprs_events(exprs) ==
    IF exprs = <<>> THEN <<>> ELSE expr_events(Head(exprs)) \o exprs_events(Tail(exprs))

target_events(target) ==
    IF target.k = "Name" THEN <<EvStore(target.id)>> ELSE expr_events(target)

RECURSIVE pattern_events(_)
pattern_events(pattern) ==
    CASE pattern.k = "MatchValue" -> expr_events(pattern.value)
      [] pattern.k = "MatchAs" ->
           (IF pattern.pattern # None THEN pattern_events(pattern.pattern[1]) ELSE <<>>)
           \o (IF pattern.name # None THEN <<EvStore(pattern.name[1])>> ELSE <<>>)
      [] OTHER -> <<>>

RECURSIVE stmt_events(_), stmts_events(_), handlers_events(_), clauses_events(_)
stmt_events(statement) ==
    CASE statement.k = "Expr" -> expr_events(statement.value)
      [] statement.k = "Match" ->
           expr_events(statement.subject)
           \o Flatten([i \in 1..Len(statement.cases) |->
                          pattern_events(statement.cases[i].pattern)
                          \o exprs_events(statement.cases[i].guard)
                          \o stmts_events(statement.cases[i].body)])
      [] statement.k = "Assign" ->
           expr_events(statement.value)
           \o Flatten([i \in 1..Len(statement.targets) |->
                          target_events(statement.targets[i])])
      [] statement.k = "Delete" ->
           Flatten([i \in 1..Len(statement.targets) |->
                       target_events(statement.targets[i])])
      [] statement.k = "AugAssign" ->
           expr_events(statement.target) \o expr_events(statement.value)
           \o target_events(statement.target)
      [] statement.k = "Global" ->
           [i \in 1..Len(statement.names) |-> EvGlobal(statement.names[i])]
      [] statement.k = "Return" -> exprs_events(statement.value)
      [] statement.k = "Raise" -> exprs_events(statement.exc) \o exprs_events(statement.cause)
      [] statement.k = "Assert" -> expr_events(statement.test) \o exprs_events(statement.msg)
      [] statement.k = "If" ->
           expr_events(statement.test) \o stmts_events(statement.body)
           \o clauses_events(statement.elif_else_clauses)
      [] statement.k = "While" ->
           expr_events(statement.test) \o stmts_events(statement.body)
           \o stmts_events(statement.orelse)
      [] statement.k = "With" ->
           Flatten([i \in 1..Len(statement.items) |->
                       expr_events(statement.items[i].context_expr)
                       \o (IF statement.items[i].optional_vars = None THEN <<>>
                           ELSE target_events(statement.items[i].optional_vars[1]))])
           \o stmts_events(statement.body)
      [] statement.k = "For" ->
           expr_events(statement.iter) \o target_events(statement.target)
           \o stmts_events(statement.body) \o stmts_events(statement.orelse)
      [] statement.k = "Try" ->
           stmts_events(statement.body) \o handlers_events(statement.handlers)
           \o stmts_events(statement.orelse) \o stmts_events(statement.finalbody)
      [] statement.k = "ImportFrom" ->
           [i \in 1..Len(statement.names) |->
               EvStore(IF statement.names[i].asname # None
                       THEN statement.names[i].asname[1] ELSE statement.names[i].name)]
      [] statement.k = "FunctionDef" ->
           exprs_events(statement.decorator_list)
           \o exprs_events(parameter_defaults(statement.parameters))
           \o <<EvScope("Function", None, parameter_names(statement.parameters),
                        statement.body),
                EvStore(statement.name)>>
      [] statement.k = "ClassDef" ->
           exprs_events(statement.decorator_list)
           \o <<EvScope("Class", Some(statement.name), <<>>, statement.body),
                EvStore(statement.name)>>
      [] OTHER -> <<>>

stmts_events(statements) ==
    IF statements = <<>> THEN <<>>
    ELSE stmt_events(Head(statements)) \o stmts_events(Tail(statements))

handlers_events(handlers) ==
    IF handlers = <<>> THEN <<>>
    ELSE exprs_events(Head(handlers).type_)
         \o (IF Head(handlers).name # None THEN <<EvStore(Head(handlers).name[1])>>
             ELSE <<>>)
         \o stmts_events(Head(handlers).body) \o handlers_events(Tail(handlers))

clauses_events(clauses) ==
    IF clauses = <<>> THEN <<>>
    ELSE exprs_events(Head(clauses).test) \o stmts_events(Head(clauses).body)
         \o clauses_events(Tail(clauses))

RECURSIVE SetToSeq(_)
SetToSeq(S) == IF S = {} THEN <<>> ELSE LET x == CHOOSE x \in S : TRUE
                                        IN <<x>> \o SetToSeq(S \ {x})

RECURSIVE index_set(_)
index_set(s) == IF s = <<>> THEN <<>> ELSE insert(index_set(Front(s)), Last(s))

\* the names of one kind of event of a scope, mangled, in order of occurrence
event_names(events, kind, class_name) ==
    LET evs == SelectSeq(events, LAMBDA ev : ev.e = kind)
    IN [i \in 1..Len(evs) |-> mangle_name(class_name, evs[i].n)]

mangled(ids, class_name) == [i \in 1..Len(ids) |-> mangle_name(class_name, ids[i])]

\* the names a scope (with its nested scopes) takes from the scopes around it
RECURSIVE scope_free(_, _, _, _), events_free(_, _, _, _)
scope_free(typ, params, body, class_name) ==
    events_free(typ, params, stmts_events(body), class_name)

events_free(typ, params, events, class_name) ==
    LET bound == Range(mangled(params, class_name))
                 \cup Range(event_names(events, "store", class_name))
        globals == Range(event_names(events, "global", class_name))
        loads == Range(event_names(events, "load", class_name))
        children == SelectSeq(events, LAMBDA ev : ev.e = "scope")
        needed == UNION {scope_free(children[i].typ, children[i].params, children[i].body,
                                    IF children[i].cname # None THEN children[i].cname
                                    ELSE class_name) : i \in 1..Len(children)}
    IN IF typ = "Class" THEN ((loads \ bound) \cup needed) \ globals
       ELSE ((loads \cup needed) \ bound) \ globals

RECURSIVE scan_scope(_, _, _, _, _), scan_events(_, _, _, _, _)
scan_scope(typ, params, body, avail, class_name) ==
    scan_events(typ, params, stmts_events(body), avail, class_name)

\* the table of a scope from its events
scan_events(typ, params, events, avail, class_name) ==
    LET ps == mangled(params, class_name)
        stores == event_names(events, "store", class_name)
        bound == Range(ps) \cup Range(stores)
        globals == Range(event_names(events, "global", class_name))
        children == SelectSeq(events, LAMBDA ev : ev.e = "scope")
        child_class(ch) == IF ch.cname # None THEN ch.cname ELSE class_name
        needed == UNION {scope_free(children[i].typ, children[i].params, children[i].body,
                                    child_class(children[i])) : i \in 1..Len(children)}
        uses == SelectSeq(events, LAMBDA ev : ev.e # "scope")
        ordered == index_set(ps \o [i \in 1..Len(uses) |-> mangle_name(class_name, uses[i].n)]
                             \o SetToSeq((needed \cap avail) \ bound))
        scope_of(n) ==
            IF n \in globals THEN "GlobalExplicit"
            ELSE IF n \in bound
            THEN (IF typ \in {"Function", "Comprehension"} /\ n \in needed THEN "Cell"
                  ELSE "Local")
            ELSE IF n \in avail THEN "Free"
            ELSE IF typ = "Module" THEN "Unknown"
            ELSE "GlobalImplicit"
        child_avail == CASE typ \in {"Function", "Comprehension"} ->
                              (avail \cup bound) \ globals
                         [] typ = "Class" -> avail
                         [] typ = "Module" -> {}
    IN SymbolTable(typ,
                   [i \in 1..Len(ordered) |-> Symbol(ordered[i], scope_of(ordered[i]), {})],
                   [i \in 1..Len(children) |->
                       scan_scope(children[i].typ, children[i].params, children[i].body,
                                  child_avail, child_class(children[i]))])

scan_program(body) == scan_scope("Module", <<>>, body, {}, None)

(***************************************************************************)
(* compile_program (Mode::Exec): the module body with its symbol table     *)
(* gives the module code object.  The driver below takes it in steps: the  *)
(* part before the statements, one top-level statement at a time, and the  *)
(* part after them.                                                        *)
(***************************************************************************)
\* compile_program with a fault: the symbol table is shared between the
\* compile runs instead of owned by each, so a run starts from the table as
\* another run's push_symbol_table calls have left it.
compile_program_begin_shared_table(c, body, symbol_table) ==
    LET started == {r \in DOMAIN compiler :
                       compiler[r] # None /\ compiler[r][1].symbol_table_stack # <<>>}
        shared == IF started = {} THEN symbol_table
                  ELSE LET r == CHOOSE r \in started : TRUE
                       IN compiler[r][1].symbol_table_stack[1]
        c1 == [c EXCEPT !.symbol_table_stack = Append(@, shared)]
        sd == split_doc(body, c1.opts)
        c2 == IF sd.doc # None
              THEN LET d1 == self_emit_load_const(c1, ConstStr(sd.doc[1]))
                       r == self_name(d1, "__doc__")
                   IN self_emit_arg(r.c, "StoreGlobal", r.idx)
              ELSE c1
    IN IF find_ann(sd.body) THEN self_emit_no_arg(c2, "SetupAnnotation") ELSE c2

compile_program_begin(c, body, symbol_table) ==
    LET c1 == [c EXCEPT !.symbol_table_stack = Append(@, symbol_table)]
        sd == split_doc(body, c1.opts)
        c2 == IF sd.doc # None
              THEN LET d1 == self_emit_load_const(c1, ConstStr(sd.doc[1]))
                       r == self_name(d1, "__doc__")
                   IN self_emit_arg(r.c, "StoreGlobal", r.idx)
              ELSE c1
    IN IF find_ann(sd.body) THEN self_emit_no_arg(c2, "SetupAnnotation") ELSE c2

compile_program_end(c, size_before) ==
    IF Len(c.code_stack) # size_before
    THEN error(c, "panic: assertion failed: code_stack.len() == size_before")
    ELSE self_emit_return_const(c, ConstNone)

\* the whole of compile_program followed by pop_code_object, as
\* rustpython_codegen::compile::compile_program does
compile_module(opts, body) ==
    LET c0 == new(opts, "<module>")
        c1 == self_compile_program_begin(c0, body, scan_program(body))
        c2 == self_compile_statements(c1, split_doc(body, opts).body)
    IN IF Failed(c2) THEN [c |-> c2, code |-> None]
       ELSE self_pop_code_object(self_compile_program_end(c2, Len(c0.code_stack)))

(***************************************************************************)
(* The other compile modes: compile_program_single (Mode::Single),         *)
(* compile_block_expr (Mode::BlockExpr) and compile_eval (an expression).  *)
(***************************************************************************)
\* the `for statement in body` loop of compile_program_single
compile_single_statements(c, body) ==
    IF body = <<>> THEN c
    ELSE LET statement == Head(body)
             c1 == IF statement.k = "Expr"
                   THEN LET e == self_compile_expression(c, statement.value)
                        IN IF Failed(e) THEN e ELSE self_emit_no_arg(e, "PrintExpr")
                   ELSE self_compile_statement(c, statement)
         IN IF Failed(c1) THEN c1 ELSE self_compile_single_statements(c1, Tail(body))

compile_program_single(c, body, symbol_table) ==
    LET c1 == [c EXCEPT !.symbol_table_stack = Append(@, symbol_table)]
    IN IF body = <<>> THEN self_emit_return_value(self_emit_load_const(c1, ConstNone))
       ELSE LET last == Last(body)
                c2 == self_compile_single_statements(c1, Front(body))
            IN IF Failed(c2) THEN c2
               ELSE LET c3 == IF last.k = "Expr"
                              THEN LET e == self_compile_expression(c2, last.value)
                                   IN IF Failed(e) THEN e
                                      ELSE self_emit_no_arg(self_emit_no_arg(e, "Duplicate"),
                                                            "PrintExpr")
                              ELSE LET t == self_compile_statement(c2, last)
                                   IN IF Failed(t) THEN t
                                      ELSE self_emit_load_const(t, ConstNone)
                    IN IF Failed(c3) THEN c3 ELSE self_emit_return_value(c3)

\* self.current_block().instructions.pop(): the last instruction of the
\* current block, if there is one, is taken off
pop_instruction(c) ==
    LET info == current_code_info(c)
        b == info.current_block + 1
        ins == info.blocks[b].instructions
    IN IF ins = <<>> THEN [c |-> c, inst |-> None]
       ELSE [c |-> set_code_info(c, [info EXCEPT !.blocks[b].instructions = Front(ins)]),
             inst |-> Some(Last(ins))]

\* self.current_block().instructions.push(inst)
push_instruction(c, inst) ==
    LET info == current_code_info(c)
        b == info.current_block + 1
    IN set_code_info(c, [info EXCEPT !.blocks[b].instructions = Append(@, inst)])

compile_block_expr(c, body, symbol_table) ==
    LET c1 == [c EXCEPT !.symbol_table_stack = Append(@, symbol_table)]
        c2 == self_compile_statements(c1, body)
    IN IF Failed(c2) THEN c2
       ELSE LET c3 == IF body = <<>> THEN c2
                      ELSE CASE Last(body).k = "Expr" -> pop_instruction(c2).c
                             [] Last(body).k \in {"FunctionDef", "ClassDef"} ->
                                  LET popped == pop_instruction(c2)
                                  IN IF popped.inst = None
                                     THEN error(c2, "panic: unwrap on None")
                                     ELSE push_instruction(
                                              self_emit_no_arg(popped.c, "Duplicate"),
                                              popped.inst[1])
                             [] OTHER -> self_emit_load_const(c2, ConstNone)
            IN IF Failed(c3) THEN c3 ELSE self_emit_return_value(c3)

compile_eval(c, expression, symbol_table) ==
    LET c1 == [c EXCEPT !.symbol_table_stack = Append(@, symbol_table)]
        c2 == self_compile_expression(c1, expression)
    IN IF Failed(c2) THEN c2 ELSE self_emit_return_value(c2)

\* self.f(...).  The source never reaches an emit after a returned Err; here
\* such an emit leaves the compiler as it is.
self(method, a) ==
    IF Failed(a[1]) /\ method \in {"_emit", "emit_no_arg", "emit_arg", "emit_sub", "emit_target"}
    THEN a[1]
    ELSE
    CASE method = "_emit" -> _emit(a[1], a[2], a[3], a[4], a[5])
      [] method = "emit_no_arg" -> emit_no_arg(a[1], a[2])
      [] method = "emit_arg" -> emit_arg(a[1], a[2], a[3])
      [] method = "emit_sub" -> emit_sub(a[1], a[2], a[3])
      [] method = "emit_target" -> emit_target(a[1], a[2], a[3])
      [] method = "arg_constant" -> arg_constant(a[1], a[2])
      [] method = "emit_load_const" -> emit_load_const(a[1], a[2])
      [] method = "emit_return_const" -> emit_return_const(a[1], a[2])
      [] method = "emit_return_value" -> emit_return_value(a[1])
      [] method = "new_block" -> new_block(a[1])
      [] method = "switch_to_block" -> switch_to_block(a[1], a[2])
      [] method = "mark_generator" -> mark_generator(a[1])
      [] method = "mangle" -> mangle(a[1], a[2])
      [] method = "_name_inner" -> _name_inner(a[1], a[2], a[3])
      [] method = "name" -> name(a[1], a[2])
      [] method = "emit_name" -> emit_name(a[1], a[2], a[3])
      [] method = "varname" -> varname(a[1], a[2])
      [] method = "push_symbol_table" -> push_symbol_table(a[1])
      [] method = "pop_symbol_table" -> pop_symbol_table(a[1])
      [] method = "push_output" -> push_output(a[1], a[2], a[3], a[4], a[5], a[6])
      [] method = "pop_code_object" -> pop_code_object(a[1])
      [] method = "check_forbidden_name" -> check_forbidden_name(a[1], a[2], a[3])
      [] method = "compile_name" -> compile_name(a[1], a[2], a[3])
      [] method = "load_name" -> load_name(a[1], a[2])
      [] method = "store_name" -> store_name(a[1], a[2])
      [] method = "set_ctx" -> set_ctx(a[1], a[2])
      [] method = "compile_op" -> compile_op(a[1], a[2], a[3])
      [] method = "compile_cmpop" -> compile_cmpop(a[1], a[2])
      [] method = "compile_mid_comparisons" -> compile_mid_comparisons(a[1], a[2], a[3], a[4])
      [] method = "compile_chained_comparison" -> compile_chained_comparison(a[1], a[2], a[3], a[4])
      [] method = "compile_bool_values" -> compile_bool_values(a[1], a[2], a[3], a[4])
      [] method = "compile_bool_op" -> compile_bool_op(a[1], a[2], a[3])
      [] method = "compile_jump_if_each" -> compile_jump_if_each(a[1], a[2], a[3], a[4])
      [] method = "compile_jump_if" -> compile_jump_if(a[1], a[2], a[3], a[4])
      [] method = "compile_expressions" -> compile_expressions(a[1], a[2])
      [] method = "compile_kw_defaults" -> compile_kw_defaults(a[1], a[2])
      [] method = "varnames" -> varnames(a[1], a[2])
      [] method = "set_flag" -> set_flag(a[1], a[2], a[3])
      [] method = "enter_function" -> enter_function(a[1], a[2], a[3])
      [] method = "load_closures" -> load_closures(a[1], a[2])
      [] method = "build_closure" -> build_closure(a[1], a[2])
      [] method = "compile_lambda" -> compile_lambda(a[1], a[2], a[3])
      [] method = "compile_expression" -> compile_expression(a[1], a[2])
      [] method = "compile_store" -> compile_store(a[1], a[2])
      [] method = "compile_delete" -> compile_delete(a[1], a[2])
      [] method = "load_docstring" -> load_docstring(a[1], a[2])
      [] method = "prepare_decorators" -> prepare_decorators(a[1], a[2])
      [] method = "apply_decorators" -> apply_decorators(a[1], a[2])
      [] method = "future_features" -> future_features(a[1], a[2])
      [] method = "compile_future_features" -> compile_future_features(a[1], a[2])
      [] method = "import_from_names" -> import_from_names(a[1], a[2])
      [] method = "compile_import_from" -> compile_import_from(a[1], a[2], a[3], a[4])
      [] method = "compile_elif_clauses" -> compile_elif_clauses(a[1], a[2], a[3], a[4])
      [] method = "compile_if" -> compile_if(a[1], a[2], a[3], a[4])
      [] method = "set_loop_data" -> set_loop_data(a[1], a[2])
      [] method = "compile_while" -> compile_while(a[1], a[2], a[3], a[4])
      [] method = "compile_for" -> compile_for(a[1], a[2], a[3], a[4], a[5], a[6])
      [] method = "compile_try_handlers" -> compile_try_handlers(a[1], a[2], a[3], a[4])
      [] method = "compile_try_statement" -> compile_try_statement(a[1], a[2], a[3], a[4], a[5])
      [] method = "compile_try_star_statement" -> compile_try_star_statement(a[1], a[2], a[3], a[4], a[5])
      [] method = "push_qualified_path" -> push_qualified_path(a[1], a[2])
      [] method = "pop_qualified_path" -> pop_qualified_path(a[1])
      [] method = "compile_function_def" -> compile_function_def(a[1], a[2], a[3], a[4], a[5], a[6])
      [] method = "compile_class_def" -> compile_class_def(a[1], a[2], a[3], a[4], a[5])
      [] method = "compile_assign_targets" -> compile_assign_targets(a[1], a[2])
      [] method = "compile_delete_targets" -> compile_delete_targets(a[1], a[2])
      [] method = "compile_raise" -> compile_raise(a[1], a[2], a[3])
      [] method = "compile_assert" -> compile_assert(a[1], a[2], a[3])
      [] method = "compile_return" -> compile_return(a[1], a[2])
      [] method = "track_future_stmts" -> track_future_stmts(a[1], a[2])
      [] method = "compile_statement" -> compile_statement(a[1], a[2])
      [] method = "compile_statements" -> compile_statements(a[1], a[2])
      [] method = "compile_program_begin" -> compile_program_begin(a[1], a[2], a[3])
      [] method = "compile_comprehension_element" -> compile_comprehension_element(a[1], a[2])
      [] method = "compile_element" -> compile_element(a[1], a[2])
      [] method = "comprehension_loop" -> comprehension_loop(a[1], a[2], a[3], a[4])
      [] method = "comprehension_loops" -> comprehension_loops(a[1], a[2], a[3], a[4])
      [] method = "comprehension_ends" -> comprehension_ends(a[1], a[2], a[3])
      [] method = "comprehension_body" -> comprehension_body(a[1], a[2], a[3], a[4], a[5])
      [] method = "comprehension_call" -> comprehension_call(a[1], a[2], a[3], a[4], a[5], a[6])
      [] method = "compile_comprehension" -> compile_comprehension(a[1], a[2], a[3], a[4], a[5], a[6], a[7])
      [] method = "comprehension_arm" -> comprehension_arm(a[1], a[2])
      [] method = "gather_runs" -> gather_runs(a[1], a[2], a[3])
      [] method = "gather_elements" -> gather_elements(a[1], a[2], a[3])
      [] method = "compile_keyword_items" -> compile_keyword_items(a[1], a[2])
      [] method = "compile_keyword_groups" -> compile_keyword_groups(a[1], a[2], a[3])
      [] method = "compile_keywords" -> compile_keywords(a[1], a[2])
      [] method = "check_keyword_names" -> check_keyword_names(a[1], a[2])
      [] method = "compile_call_kind" -> compile_call_kind(a[1], a[2], a[3], a[4], a[5])
      [] method = "compile_call_inner" -> compile_call_inner(a[1], a[2], a[3])
      [] method = "compile_normal_call" -> compile_normal_call(a[1], a[2])
      [] method = "compile_method_call" -> compile_method_call(a[1], a[2])
      [] method = "compile_call" -> compile_call(a[1], a[2], a[3])
      [] method = "compile_augassign_load" -> compile_augassign_load(a[1], a[2])
      [] method = "compile_augassign_store" -> compile_augassign_store(a[1], a[2])
      [] method = "compile_augassign" -> compile_augassign(a[1], a[2], a[3], a[4])
      [] method = "compile_pattern_value" -> compile_pattern_value(a[1], a[2], a[3])
      [] method = "compile_pattern_as" -> compile_pattern_as(a[1], a[2], a[3])
      [] method = "compile_pattern_inner" -> compile_pattern_inner(a[1], a[2], a[3])
      [] method = "compile_pattern" -> compile_pattern(a[1], a[2], a[3])
      [] method = "new_blocks" -> new_blocks(a[1], a[2])
      [] method = "compile_match_cases" -> compile_match_cases(a[1], a[2], a[3], a[4])
      [] method = "link_match_blocks" -> link_match_blocks(a[1], a[2])
      [] method = "compile_match_inner" -> compile_match_inner(a[1], a[2], a[3], a[4])
      [] method = "compile_match" -> compile_match(a[1], a[2], a[3])
      [] method = "compile_with" -> compile_with(a[1], a[2], a[3], a[4])
      [] method = "compile_single_statements" -> compile_single_statements(a[1], a[2])
      [] method = "compile_program_single" -> compile_program_single(a[1], a[2], a[3])
      [] method = "compile_block_expr" -> compile_block_expr(a[1], a[2], a[3])
      [] method = "compile_eval" -> compile_eval(a[1], a[2], a[3])
      [] method = "compile_program_end" -> compile_program_end(a[1], a[2])

(***************************************************************************)
(* The frame that runs a code object (vm/src/frame.rs): the evaluation     *)
(* stack, the block stack with its unwinding, and the conditional jumps.   *)
(* Values are the constants, and for the names of the environment objects  *)
(* with a truth value, exceptions, exception types and iterators.  The     *)
(* frame records in `trace` each name and each constant it loads, in       *)
(* order.                                                                  *)
(***************************************************************************)
VObject(id, truth) == [t |-> "Object", id |-> id, truth |-> truth]
VException(kind) == [t |-> "Exception", kind |-> kind]
VType(matches) == [t |-> "Type", matches |-> matches]
VIterator(remaining) == [t |-> "Iterator", remaining |-> remaining]
VUnbound == [t |-> "Unbound"]

truthy(v) ==
    CASE v.t = "Boolean" -> v.b
      [] v.t = "Integer" -> v.i # 0
      [] v.t = "None" -> FALSE
      [] v.t = "Object" -> v.truth
      [] OTHER -> TRUE

Block(typ, handler, reason, prev_exc, level) ==
    [typ |-> typ, handler |-> handler, reason |-> reason, prev_exc |-> prev_exc,
     level |-> level]

Raising(exception) == [r |-> "Raising", exception |-> exception]
Returning(value) == [r |-> "Returning", value |-> value]
UnwindBreak(target) == [r |-> "Break", target |-> target]
UnwindContinue(target) == [r |-> "Continue", target |-> target]

NewFrame(co, env) ==
    [status |-> "running", co |-> co, lasti |-> 0, stack |-> <<>>, blocks |-> <<>>,
     locals |-> env, exc |-> None, trace |-> <<>>, result |-> None, steps |-> 0]

push_value(f, v) == [f EXCEPT !.stack = Append(@, v)]
pop_values(f, n) == [f EXCEPT !.stack = SubSeq(@, 1, Len(@) - n)]
top_value(f) == Last(f.stack)
nth_value(f, depth) == f.stack[Len(f.stack) - depth]
jump(f, target) == [f EXCEPT !.lasti = target]

push_block(f, typ, handler, reason, prev_exc) ==
    [f EXCEPT !.blocks = Append(@, Block(typ, handler, reason, prev_exc, Len(f.stack)))]

\* pop_block: the block goes, and the stack is cut back to the block's level
pop_block(f) ==
    [f EXCEPT !.blocks = Front(@),
              !.stack = SubSeq(@, 1, IF Last(f.blocks).level < Len(@)
                                     THEN Last(f.blocks).level ELSE Len(@))]

fatal(f, msg) == [f EXCEPT !.status = "fatal", !.result = Some(ConstStr(msg))]

RECURSIVE unwind_blocks(_, _)
unwind_blocks(f, reason) ==
    IF f.blocks = <<>>
    THEN CASE reason.r = "Raising" ->
                [f EXCEPT !.status = "raised", !.result = Some(reason.exception)]
           [] reason.r = "Returning" ->
                [f EXCEPT !.status = "returned", !.result = Some(reason.value)]
           [] OTHER -> fatal(f, "break or continue must occur within a loop block.")
    ELSE LET block == Last(f.blocks)
         IN CASE block.typ = "Loop" ->
                   (CASE reason.r = "Break" -> jump(pop_block(f), reason.target)
                      [] reason.r = "Continue" -> jump(f, reason.target)
                      [] OTHER -> unwind_blocks(pop_block(f), reason))
              [] block.typ = "Finally" ->
                   LET f1 == pop_block(f)
                       prev_exc == f1.exc
                       f2 == IF reason.r = "Raising"
                             THEN [f1 EXCEPT !.exc = Some(reason.exception)] ELSE f1
                   IN jump(push_block(f2, "FinallyHandler", NULL, Some(reason), prev_exc),
                           block.handler)
              [] block.typ = "TryExcept" ->
                   IF reason.r = "Raising"
                   THEN LET f1 == pop_block(f)
                            f2 == push_block(f1, "ExceptHandler", NULL, None, f1.exc)
                            f3 == [f2 EXCEPT !.exc = Some(reason.exception)]
                        IN jump(push_value(f3, reason.exception), block.handler)
                   ELSE unwind_blocks(pop_block(f), reason)
              [] block.typ \in {"FinallyHandler", "ExceptHandler"} ->
                   unwind_blocks([pop_block(f) EXCEPT !.exc = block.prev_exc], reason)

raise_exception(f, exception) == unwind_blocks(f, Raising(exception))

compare(op, a, b) ==
    CASE op = "Less" -> a < b
      [] op = "LessOrEqual" -> a <= b
      [] op = "Greater" -> a > b
      [] op = "GreaterOrEqual" -> a >= b
      [] op = "Equal" -> a = b
      [] op = "NotEqual" -> a # b

load_from(f, id) ==
    IF id \in DOMAIN f.locals /\ f.locals[id] # VUnbound
    THEN push_value([f EXCEPT !.trace = Append(@, [id |-> id])], f.locals[id])
    ELSE raise_exception([f EXCEPT !.trace = Append(@, [id |-> id])],
                         VException("NameError"))

store_to(f, id) ==
    pop_values([f EXCEPT !.locals = [n \in DOMAIN @ \cup {id} |->
                                        IF n = id THEN top_value(f) ELSE @[n]]], 1)

\* execute_instruction: the instruction at lasti, after lasti has moved on
execute_instruction(f0, ins) ==
    LET f == [f0 EXCEPT !.lasti = @ + 1, !.steps = @ + 1]
        co == f.co
    IN CASE ins.op = "LoadConst" ->
              push_value([f EXCEPT !.trace = Append(@, co.constants[ins.arg + 1])],
                         co.constants[ins.arg + 1])
         [] ins.op \in {"LoadNameAny", "LoadGlobal"} -> load_from(f, co.names[ins.arg + 1])
         [] ins.op = "LoadFast" -> load_from(f, co.varnames[ins.arg + 1])
         [] ins.op \in {"StoreLocal", "StoreGlobal"} -> store_to(f, co.names[ins.arg + 1])
         [] ins.op = "StoreFast" -> store_to(f, co.varnames[ins.arg + 1])
         [] ins.op = "Pop" -> pop_values(f, 1)
         [] ins.op = "Duplicate" -> push_value(f, top_value(f))
         [] ins.op = "Rotate2" ->
              push_value(push_value(pop_values(f, 2), nth_value(f, 0)), nth_value(f, 1))
         [] ins.op = "Rotate3" ->
              push_value(push_value(push_value(pop_values(f, 3), nth_value(f, 0)),
                                    nth_value(f, 2)), nth_value(f, 1))
         [] ins.op = "UnaryOperation" /\ ins.sub = "Not" ->
              push_value(pop_values(f, 1), ConstBoolean(~truthy(top_value(f))))
         [] ins.op = "CompareOperation" ->
              LET b == nth_value(f, 0)
                  a == nth_value(f, 1)
              IN IF a.t = "Integer" /\ b.t = "Integer"
                 THEN push_value(pop_values(f, 2), ConstBoolean(compare(ins.sub, a.i, b.i)))
                 ELSE raise_exception(pop_values(f, 2), VException("TypeError"))
         [] ins.op = "TestOperation" /\ ins.sub = "ExceptionMatch" ->
              LET b == nth_value(f, 0)
              IN IF b.t = "Type"
                 THEN push_value(pop_values(f, 2), ConstBoolean(b.matches))
                 ELSE raise_exception(pop_values(f, 2), VException("TypeError"))
         [] ins.op = "Jump" -> jump(f, ins.arg)
         [] ins.op = "JumpIfFalse" ->
              IF truthy(top_value(f)) THEN pop_values(f, 1)
              ELSE jump(pop_values(f, 1), ins.arg)
         [] ins.op = "JumpIfTrue" ->
              IF truthy(top_value(f)) THEN jump(pop_values(f, 1), ins.arg)
              ELSE pop_values(f, 1)
         [] ins.op = "JumpIfFalseOrPop" ->
              IF truthy(top_value(f)) THEN pop_values(f, 1) ELSE jump(f, ins.arg)
         [] ins.op = "JumpIfTrueOrPop" ->
              IF truthy(top_value(f)) THEN jump(f, ins.arg) ELSE pop_values(f, 1)
         [] ins.op = "SetupLoop" -> push_block(f, "Loop", NULL, None, None)
         [] ins.op = "SetupExcept" -> push_block(f, "TryExcept", ins.arg, None, None)
         [] ins.op = "SetupFinally" -> push_block(f, "Finally", ins.arg, None, None)
         [] ins.op = "PopBlock" -> pop_block(f)
         [] ins.op = "EnterFinally" -> push_block(f, "FinallyHandler", NULL, None, f.exc)
         [] ins.op = "EndFinally" ->
              IF f.blocks = <<>> \/ Last(f.blocks).typ # "FinallyHandler"
              THEN fatal(f, "Block type must be finally handler when reaching EndFinally")
              ELSE LET block == Last(f.blocks)
                       f1 == [pop_block(f) EXCEPT !.exc = block.prev_exc]
                   IN IF block.reason # None THEN unwind_blocks(f1, block.reason[1])
                      ELSE f1
         [] ins.op = "PopException" ->
              IF f.blocks = <<>> \/ Last(f.blocks).typ # "ExceptHandler"
              THEN fatal(f, "block type must be ExceptHandler here.")
              ELSE [pop_block(f) EXCEPT !.exc = Last(f.blocks).prev_exc]
         [] ins.op = "Raise" ->
              (CASE ins.sub = "Raise" ->
                      raise_exception(pop_values(f, 1), top_value(f))
                 [] ins.sub = "RaiseCause" ->
                      raise_exception(pop_values(f, 2), nth_value(f, 1))
                 [] ins.sub = "Reraise" ->
                      raise_exception(f, IF f.exc # None THEN f.exc[1]
                                         ELSE VException("RuntimeError")))
         [] ins.op = "Break" -> unwind_blocks(f, UnwindBreak(ins.arg))
         [] ins.op = "Continue" -> unwind_blocks(f, UnwindContinue(ins.arg))
         [] ins.op = "ReturnValue" -> unwind_blocks(pop_values(f, 1), Returning(top_value(f)))
         [] ins.op = "ReturnConst" ->
              unwind_blocks(f, Returning(co.constants[ins.arg + 1]))
         [] ins.op = "GetIter" ->
              IF top_value(f).t = "Integer"
              THEN push_value(pop_values(f, 1), VIterator(top_value(f).i))
              ELSE raise_exception(pop_values(f, 1), VException("TypeError"))
         [] ins.op = "ForIter" ->
              IF top_value(f).remaining > 0
              THEN push_value(push_value(pop_values(f, 1),
                                         VIterator(top_value(f).remaining - 1)),
                              ConstInteger(top_value(f).remaining))
              ELSE jump(pop_values(f, 1), ins.arg)
         [] OTHER -> fatal(f, "instruction outside the model")

(***************************************************************************)
(* Programs: a module body, the code object to run after compiling it      *)
(* ("module", the first function of the module, or none) and the           *)
(* environment the run finds its names in.                                 *)
(***************************************************************************)
CompileOpts(optimize) == [optimize |-> optimize]

Program(body, entry, env) == [body |-> body, entry |-> entry, env |-> env]

NoEnv == [n \in {} |-> VUnbound]

Name(id) == ExprName(id)
Mark(id) == StmtExpr(ExprName(id))
Assign(id, value) == StmtAssign(<<ExprName(id)>>, value)
Def(id, body) == StmtFunctionDef(id, NoParameters, body, <<>>, FALSE)
AsyncDef(id, body) == StmtFunctionDef(id, NoParameters, body, <<>>, TRUE)
Class(id, body) == StmtClassDef(id, body, <<>>, None)

\* `x = 1`
AssignProgram == Program(<<Assign("x", ExprNumberLiteral(1))>>, "none", NoEnv)

\* `r = <and/or chain>` over operands with every combination of truth values
BoolExprs ==
    LET a == Name("a")
        b == Name("b")
        d == Name("d")
    IN {ExprBoolOp("And", <<a, b>>), ExprBoolOp("And", <<a, b, d>>),
        ExprBoolOp("Or", <<a, b>>), ExprBoolOp("Or", <<a, b, d>>),
        ExprBoolOp("Or", <<ExprBoolOp("And", <<a, b>>), d>>),
        ExprBoolOp("And", <<a, ExprBoolOp("Or", <<b, d>>)>>),
        ExprBoolOp("And", <<ExprBoolOp("Or", <<a, b>>), d>>)}

BoolEnvs == {[n \in {"a", "b", "d"} |-> VObject(n, truth[n])] :
                truth \in [{"a", "b", "d"} -> BOOLEAN]}

BoolPrograms == {Program(<<Assign("r", e)>>, "module", env) :
                    e \in BoolExprs, env \in BoolEnvs}

\* `r = <chained comparison>` over integer operands
CompareExprs ==
    LET a == Name("a")
        b == Name("b")
        d == Name("d")
    IN {ExprCompare(a, <<"Lt">>, <<b>>),
        ExprCompare(a, <<"Lt", "Lt">>, <<b, d>>),
        ExprCompare(a, <<"LtE", "Gt">>, <<b, d>>),
        ExprCompare(a, <<"Lt", "Lt", "Lt">>, <<b, d, Name("e")>>),
        ExprCompare(a, <<"Eq", "NotEq", "GtE">>, <<b, d, a>>)}

CompareEnvs == {[n \in {"a", "b", "d", "e"} |-> ConstInteger(v[n])] :
                   v \in [{"a", "b", "d", "e"} -> 0..2]}

\* `r = 1 < 2 < 0`
LiteralCompareProgram ==
    Program(<<Assign("r", ExprCompare(ExprNumberLiteral(1), <<"Lt", "Lt">>,
                                      <<ExprNumberLiteral(2), ExprNumberLiteral(0)>>))>>,
            "module", NoEnv)

ComparePrograms == {Program(<<Assign("r", e)>>, "module", env) :
                       e \in CompareExprs, env \in CompareEnvs}
                   \cup {LiteralCompareProgram}

\* try statements with a finally clause.  The markers `t` (first statement
\* of the try body), `h` (handler), `e` (else) and `fin` (finally body) are
\* names the run loads; `x`, `y`, `z` are names that may be unbound, so that
\* loading them may raise; `E` is an exception type that may or may not
\* match; `n` is the number of items of the iterable of a for loop.
Try(body, handlers, orelse, finalbody) == StmtTry(body, handlers, orelse, finalbody, FALSE)
Except(body) == ExceptHandler(None, None, body)
ExceptE(body) == ExceptHandler(Some(Name("E")), None, body)
ExceptEAs(alias, body) == ExceptHandler(Some(Name("E")), Some(alias), body)
ForN(body) == StmtFor(Name("i"), Name("n"), body, <<>>, FALSE)
Fin == <<Mark("fin")>>

TryModuleBodies ==
    {<<Try(<<Mark("t")>>, <<>>, <<>>, Fin)>>,
     <<Try(<<Mark("t"), Mark("x")>>, <<>>, <<>>, Fin)>>,
     <<Try(<<Mark("t"), Mark("x")>>, <<Except(<<Mark("h")>>)>>, <<>>, Fin)>>,
     <<Try(<<Mark("t"), Mark("x")>>, <<ExceptE(<<Mark("h")>>)>>, <<>>, Fin)>>,
     <<Try(<<Mark("t"), Mark("x")>>, <<ExceptEAs("v", <<Mark("h")>>)>>, <<Mark("e")>>, Fin)>>,
     <<Try(<<Mark("t"), Mark("x")>>, <<Except(<<Mark("h"), Mark("y")>>)>>, <<>>, Fin)>>,
     <<Try(<<Mark("t"), Mark("x")>>, <<ExceptE(<<Mark("h")>>), Except(<<Mark("h")>>)>>,
           <<Mark("e"), Mark("z")>>, Fin)>>,
     <<Try(<<Try(<<Mark("t"), Mark("x")>>, <<>>, <<>>, Fin)>>, <<>>, <<>>, <<Mark("y")>>)>>,
     <<ForN(<<Try(<<Mark("t"), Mark("x"), StmtBreak>>, <<>>, <<>>, Fin)>>)>>,
     <<ForN(<<Try(<<Mark("t"), Mark("x"), StmtContinue>>, <<>>, <<>>, Fin)>>)>>,
     <<ForN(<<Try(<<Mark("t"), Mark("x")>>, <<Except(<<Mark("h"), StmtBreak>>)>>,
                  <<StmtContinue>>, Fin)>>)>>,
     <<StmtWhile(Name("w"), <<Try(<<Mark("t"), StmtBreak>>, <<>>, <<>>, Fin)>>, <<>>)>>}

TryFunctionBodies ==
    {<<Def("f", <<Try(<<Mark("t"), Mark("x"), StmtReturn(Some(Name("r")))>>,
                      <<>>, <<>>, Fin)>>)>>,
     <<Def("f", <<Try(<<Mark("t"), Mark("x"), StmtReturn(None)>>,
                      <<Except(<<Mark("h"), StmtReturn(Some(ExprNumberLiteral(1)))>>)>>,
                      <<>>, Fin)>>)>>,
     <<Def("f", <<ForN(<<Try(<<Mark("t"), StmtReturn(Some(Name("i")))>>,
                             <<>>, <<>>, Fin)>>)>>)>>}

EnvValues(n) ==
    CASE n \in {"x", "y", "z"} -> {VObject(n, TRUE), VUnbound}
      [] n = "E" -> {VType(TRUE), VType(FALSE)}
      [] n = "n" -> {ConstInteger(0), ConstInteger(1), ConstInteger(2)}
      [] n = "w" -> {VObject(n, TRUE), VObject(n, FALSE)}
      [] OTHER -> {VObject(n, TRUE)}

RECURSIVE Envs(_)
Envs(S) ==
    IF S = {} THEN {NoEnv}
    ELSE LET n == CHOOSE n \in S : TRUE
         IN {[m \in DOMAIN env \cup {n} |-> IF m = n THEN v ELSE env[m]] :
                env \in Envs(S \ {n}), v \in EnvValues(n)}

RECURSIVE loaded_names(_)
loaded_names(body) ==
    LET events == stmts_events(body)
    IN {events[i].n : i \in {j \in 1..Len(events) : events[j].e = "load"}}
       \cup UNION {loaded_names(events[i].body) :
                      i \in {j \in 1..Len(events) : events[j].e = "scope"}}

ProgramsOf(bodies, entry) ==
    UNION {{Program(body, entry, env) : env \in Envs(loaded_names(body))} :
              body \in bodies}

TryPrograms == ProgramsOf(TryModuleBodies, "module") \cup ProgramsOf(TryFunctionBodies, "function")

\* closures: a nested function (or lambda) that reads variables assigned in
\* the function around it
ClosureBody1 ==
    <<Def("f", <<Assign("x", ExprNumberLiteral(1)),
                 Def("g", <<StmtReturn(Some(Name("x")))>>),
                 StmtReturn(Some(Name("g")))>>)>>

ClosureBody2 ==
    <<Def("f", <<Assign("x", ExprNumberLiteral(1)),
                 Def("g", <<Assign("y", ExprNumberLiteral(2)),
                            Def("h", <<StmtReturn(Some(Name("y")))>>),
                            StmtReturn(Some(Name("x")))>>),
                 StmtReturn(Some(Name("g")))>>)>>

ClosureBody3 ==
    <<Def("f", <<Assign("x", ExprNumberLiteral(1)),
                 Assign("z", ExprNumberLiteral(2)),
                 Def("g", <<Assign("y", ExprNumberLiteral(0)),
                            Def("h", <<StmtReturn(Some(Name("y")))>>),
                            StmtReturn(Some(ExprBinOp(ExprBinOp(Name("z"), "Add", Name("x")),
                                                      "Add", Name("z"))))>>),
                 StmtReturn(Some(Name("g")))>>)>>

ClosureBody4 ==
    <<Def("f", <<Assign("x", ExprNumberLiteral(1)),
                 StmtReturn(Some(ExprLambda(None, Name("x"))))>>)>>

ClosurePrograms ==
    {Program(body, "none", NoEnv) :
        body \in {ClosureBody1, ClosureBody2, ClosureBody3, ClosureBody4}}

\* `assert a`, `assert a, m`, `y = __debug__`
AssertProgram == Program(<<StmtAssert(Name("a"), None)>>, "none", NoEnv)
AssertMsgProgram == Program(<<StmtAssert(Name("a"), Some(Name("m")))>>, "none", NoEnv)
DebugProgram == Program(<<Assign("y", Name("__debug__"))>>, "none", NoEnv)

OptimizePrograms == {AssertProgram, AssertMsgProgram, DebugProgram}

\* a control-transfer construct as the first thing in a context that does not
\* permit it
Construct(kind) ==
    CASE kind = "break" -> StmtBreak
      [] kind = "continue" -> StmtContinue
      [] kind = "return" -> StmtReturn(None)
      [] kind = "yield" -> StmtExpr(ExprYield(None))
      [] kind = "yield from" -> StmtExpr(ExprYieldFrom(Name("x")))
      [] kind = "await" -> StmtExpr(ExprAwait(Name("x")))

InModule(k) == <<k>>
InClass(k) == <<Class("C", <<k>>)>>
InFunction(k) == <<Def("f", <<k>>)>>
InAsyncFunction(k) == <<AsyncDef("f", <<k>>)>>
InLoop(k) == <<StmtWhile(Name("w"), <<k>>, <<>>)>>
InFunctionInLoop(k) == <<StmtWhile(Name("w"), <<Def("f", <<k>>)>>, <<>>)>>
InClassInLoop(k) == <<StmtWhile(Name("w"), <<Class("C", <<k>>)>>, <<>>)>>
InClassInFunction(k) == <<Def("f", <<Class("C", <<k>>)>>)>>
InLambda(k) == <<Assign("g", ExprLambda(None, k.value))>>

\* the bodies in which `kind` is not permitted
Rejected(kind) ==
    LET k == Construct(kind)
        no_loop == {InModule(k), InClass(k), InFunction(k), InAsyncFunction(k),
                    InFunctionInLoop(k), InClassInLoop(k), InClassInFunction(k)}
        no_function == {InModule(k), InClass(k), InLoop(k), InClassInLoop(k),
                        InClassInFunction(k)}
    IN CASE kind \in {"break", "continue"} -> no_loop
         [] kind \in {"return", "yield", "yield from"} -> no_function
         [] kind = "await" -> no_function \cup {InFunction(k), InFunctionInLoop(k), InLambda(k)}

ConstructKinds == {"break", "continue", "return", "yield", "yield from", "await"}

RejectedPrograms(kind) == {Program(body, "none", NoEnv) : body \in Rejected(kind)}

\* the same constructs where they are permitted
PermittedPrograms ==
    {Program(body, "none", NoEnv) :
        body \in {InLoop(StmtBreak), InLoop(StmtContinue), InFunction(StmtReturn(None)),
                  InFunction(Construct("yield")), InFunction(Construct("yield from")),
                  InAsyncFunction(Construct("await")), InLambda(Construct("yield"))}}

\* `async def f(): yield; return 1` and `async def f(): return 1; yield`
YieldThenReturn ==
    Program(<<AsyncDef("f", <<StmtExpr(ExprYield(None)),
                              StmtReturn(Some(ExprNumberLiteral(1)))>>)>>, "none", NoEnv)

ReturnThenYield ==
    Program(<<AsyncDef("f", <<StmtReturn(Some(ExprNumberLiteral(1))),
                              StmtExpr(ExprYield(None))>>)>>, "none", NoEnv)

AsyncReturnPrograms == {YieldThenReturn, ReturnThenYield}

\* `from __future__ import <feature>`
Future(feature) == StmtImportFrom(Some("__future__"), <<Alias(feature, None)>>, 0)

Str(s) == StmtExpr(ExprStringLiteral(s))

\* bodies in which every statement before each future import is another
\* future import or the one leading docstring
WellPlacedFuture ==
    {<<Future("annotations")>>,
     <<Str("doc"), Future("generators")>>,
     <<Future("division"), Future("annotations")>>,
     <<Str("doc"), Future("division"), Future("annotations"), Assign("x", Name("y"))>>}

\* `"doc"; "second"; from __future__ import annotations`
SecondStringFuture == <<Str("doc"), Str("second"), Future("annotations")>>

\* bodies in which a future import follows another statement or is nested in
\* a compound statement
MisplacedFuture ==
    {<<Assign("x", Name("y")), Future("annotations")>>,
     <<Str("doc"), Assign("x", Name("y")), Future("annotations")>>,
     <<Future("division"), Str("s"), Future("annotations")>>,
     <<Str("doc"), Str("second"), Str("third"), Future("annotations")>>,
     SecondStringFuture,
     <<StmtIf(Name("w"), <<Future("annotations")>>, <<>>)>>,
     <<Def("f", <<Future("annotations")>>)>>,
     <<Str("doc"), Class("C", <<Future("annotations")>>)>>}

\* a comprehension of each kind over `for t in x` (or `async for t in x`)
\* with the element e
Comprehensions(e, is_async) ==
    LET generators == <<Comprehension(Name("t"), Name("x"), <<>>, is_async)>>
    IN {ExprListComp(e, generators), ExprSetComp(e, generators),
        ExprDictComp(Name("t"), e, generators)}

\* `[await a for t in x]`, `{await a for t in x}`, `{t: await a for t in x}`
AwaitComprehensions == Comprehensions(ExprAwait(Name("a")), FALSE)

\* `[t async for t in x]`, `{t async for t in x}`, `{t: t async for t in x}`
AsyncForComprehensions == Comprehensions(Name("t"), TRUE)

\* the places that are not lexically inside an async function
OutsideAsync(e) == {InModule(StmtExpr(e)), InFunction(StmtExpr(e)), InClass(StmtExpr(e))}

OutsideAsyncBodies(comprehensions) == UNION {OutsideAsync(e) : e \in comprehensions}

ComprehensionPrograms ==
    {Program(body, "none", NoEnv) :
        body \in OutsideAsyncBodies(AwaitComprehensions \cup AsyncForComprehensions)
                 \cup {InAsyncFunction(StmtExpr(e)) :
                          e \in AwaitComprehensions \cup AsyncForComprehensions}}

\* the attribute `o.__debug__`, a function with the one parameter list, and a
\* call `g(p, __debug__=kv)`
DebugAttribute == ExprAttribute(Name("o"), "__debug__")

DefWith(parameters) == <<StmtFunctionDef("f", parameters, <<StmtPass>>, <<>>, FALSE)>>

DebugParameter == ParameterWithDefault("__debug__", None)

\* `__debug__ += v`
DebugAugAssign == <<StmtAugAssign(Name("__debug__"), "Add", Name("v"))>>

\* the stores to and deletions of `__debug__`
DebugStoreBodies ==
    {<<Assign("__debug__", Name("v"))>>,
     <<StmtDelete(<<Name("__debug__")>>)>>,
     <<StmtAssign(<<DebugAttribute>>, Name("v"))>>,
     <<StmtDelete(<<DebugAttribute>>)>>,
     <<StmtAugAssign(DebugAttribute, "Add", Name("v"))>>,
     DebugAugAssign,
     DefWith(Parameters(<<>>, <<DebugParameter>>, None, <<>>, None)),
     DefWith(Parameters(<<>>, <<ParameterWithDefault("__debug__", Some(Name("v")))>>,
                        None, <<>>, None)),
     DefWith(Parameters(<<DebugParameter>>, <<>>, None, <<>>, None)),
     DefWith(Parameters(<<>>, <<>>, Some(Parameter("__debug__")), <<>>, None)),
     DefWith(Parameters(<<>>, <<>>, None, <<DebugParameter>>, None)),
     DefWith(Parameters(<<>>, <<>>, None, <<>>, Some(Parameter("__debug__")))),
     <<Assign("h", ExprLambda(Some(Parameters(<<>>, <<DebugParameter>>, None, <<>>, None)),
                              Name("v")))>>,
     <<StmtExpr(ExprCall(Name("g"), Arguments(<<>>, <<Keyword(Some("__debug__"),
                                                             Name("kv"))>>)))>>,
     <<StmtExpr(ExprCall(Name("g"), Arguments(<<Name("p")>>,
                                              <<Keyword(Some("k"), Name("v")),
                                                Keyword(Some("__debug__"), Name("kv"))>>)))>>,
     <<StmtExpr(ExprCall(ExprAttribute(Name("m"), "g"),
                         Arguments(<<ExprStarred(Name("p"))>>,
                                   <<Keyword(Some("__debug__"), Name("kv"))>>)))>>}

\* loads of `__debug__`: as a name, as an attribute, as an argument, and as
\* the value of an augmented assignment
DebugLoadBodies ==
    {<<StmtExpr(Name("__debug__"))>>,
     <<Assign("v", DebugAttribute)>>,
     <<StmtExpr(ExprCall(Name("g"), Arguments(<<Name("__debug__")>>,
                                              <<Keyword(Some("k"), Name("__debug__")),
                                                Keyword(None, Name("kv"))>>)))>>,
     <<StmtAugAssign(Name("v"), "Add", Name("__debug__"))>>,
     <<StmtAugAssign(ExprSubscript(Name("o"), Name("__debug__")), "Add", Name("v"))>>}

ForbiddenNamePrograms ==
    {Program(body, "none", NoEnv) : body \in DebugStoreBodies \cup DebugLoadBodies}

\* bodies whose first error is followed by statements and expressions that
\* load the name `late` and by a second error, by the number of code units
\* under construction where the first error is raised
ForT == <<Comprehension(Name("t"), Name("x"), <<>>, FALSE)>>

AbortBodiesAt1 ==
    {<<Mark("early"), StmtBreak, Mark("late"), StmtContinue>>,
     <<StmtExpr(ExprBinOp(ExprBinOp(Name("early"), "Add", ExprYield(None)), "Add",
                          Name("late"))), StmtBreak>>,
     <<StmtTry(<<StmtReturn(None)>>, <<>>, <<>>, <<Mark("late"), StmtBreak>>, FALSE)>>,
     <<StmtWhile(Name("early"), <<StmtReturn(None)>>, <<Mark("late")>>), Mark("late")>>,
     <<StmtExpr(ExprCall(Name("early"),
                         Arguments(<<>>, <<Keyword(Some("__debug__"), Name("late"))>>))),
       StmtBreak>>,
     <<StmtFunctionDef("f", NoParameters, <<Mark("late"), StmtBreak>>, <<ExprYield(None)>>,
                       FALSE), Mark("late")>>}

StarredElement == <<StmtExpr(ExprListComp(ExprStarred(Name("late")), ForT)), Mark("late"), StmtBreak>>

AbortBodiesAt2 ==
    {<<Def("f", <<StmtBreak, Mark("late"), StmtContinue>>), Mark("late")>>,
     <<StmtExpr(ExprListComp(ExprAwait(Name("late")),
                             <<Comprehension(Name("t"), Name("x"),
                                             <<ExprAwait(Name("a")), Name("late")>>, FALSE)>>)),
       StmtBreak>>,
     StarredElement}

AbortBodiesAt3 ==
    {<<Class("C", <<Def("f", <<StmtExpr(ExprAwait(Name("a"))), Mark("late")>>),
                    Mark("late"), StmtBreak>>), Mark("late")>>}

AbortBodies == AbortBodiesAt1 \cup AbortBodiesAt2 \cup AbortBodiesAt3

AbortPrograms == {Program(body, "none", NoEnv) : body \in AbortBodies}

\* match statements: the patterns the compiler knows (a value, a capture, the
\* wildcard) and one it does not, with case bodies that are straight-line or
\* hold control flow of their own.
ValuePattern(i) == PatternMatchValue(ExprNumberLiteral(i))
CapturePattern(id) == PatternMatchAs(None, Some(id))
WildcardPattern == PatternMatchAs(None, None)

StraightBodies == {<<Mark("a")>>}

ControlFlowBodies ==
    {<<StmtIf(Name("a"), <<Mark("b")>>, <<>>)>>,
     <<StmtIf(Name("a"), <<Mark("b")>>, <<ElifElseClause(None, <<Mark("d")>>)>>)>>,
     <<StmtWhile(Name("a"), <<Mark("b")>>, <<>>)>>}

CaseBodies == StraightBodies \cup ControlFlowBodies

FirstPatterns ==
    {ValuePattern(1), CapturePattern("x"), PatternMatchAs(Some(ValuePattern(1)), Some("x")),
     PatternMatchSequence(<<>>)}

LastPatterns == {ValuePattern(2), CapturePattern("y"), WildcardPattern}

Matches ==
    {StmtMatch(Name("s"), <<MatchCase(p, None, body)>>) :
        p \in LastPatterns, body \in CaseBodies}
    \cup {StmtMatch(Name("s"), <<MatchCase(p1, None, b1), MatchCase(p2, None, b2)>>) :
            p1 \in FirstPatterns, p2 \in LastPatterns, b1 \in CaseBodies, b2 \in CaseBodies}
    \cup {StmtMatch(Name("s"), <<MatchCase(CapturePattern("x"), Some(Name("g")), b1),
                                 MatchCase(WildcardPattern, None, <<Mark("a")>>)>>) :
            b1 \in CaseBodies}
    \cup {StmtMatch(Name("s"), <<>>)}

MatchPrograms ==
    {Program(<<m, Mark("after")>>, "none", NoEnv) : m \in Matches}
    \cup {Program(<<Def("f", <<m>>)>>, "none", NoEnv) : m \in Matches}

\* loops with break and continue: a loop is named by its test (while) or its
\* target (for) and is followed by a statement that loads the name of its
\* after mark.
LoopKinds == {"while", "for"}

AfterMark(id) == IF id = "p" THEN "after_p" ELSE "after_q"

Loop(kind, id, body, orelse) ==
    <<IF kind = "while" THEN StmtWhile(Name(id), body, orelse)
      ELSE StmtFor(Name(id), Name("xs"), body, orelse, FALSE),
      Mark(AfterMark(id))>>

Exits == {StmtBreak, StmtContinue}

ExitForms == Exits \cup {StmtIf(Name("c"), <<e>>, <<>>) : e \in Exits}

MaybeExits == Exits \cup {StmtIf(Name("c"), <<StmtBreak>>, <<>>), Mark("m")}

NestedLoops ==
    {Loop(ko, "p", Loop(ki, "q", <<Mark("m"), e1>>, <<e2>>) \o <<e3>>, <<Mark("e")>>) :
        ko \in LoopKinds, ki \in LoopKinds,
        e1 \in MaybeExits, e2 \in MaybeExits, e3 \in MaybeExits}

LoopBodies ==
    {Loop(kind, "p", <<Mark("m"), e>>, <<Mark("e")>>) : kind \in LoopKinds, e \in ExitForms}
    \cup NestedLoops
    \cup {Loop(ko, "p", <<Mark("m")>>, Loop(ki, "q", <<e>>, <<>>)) :
            ko \in LoopKinds, ki \in LoopKinds, e \in Exits}
    \cup {Loop(kind, "p", <<e1>>, <<Mark("e")>>) \o Loop(kind, "q", <<e2>>, <<>>) :
            kind \in LoopKinds, e1 \in Exits, e2 \in Exits}

\* an exit where no loop is in force: in the else clause of the outermost
\* loop, or after it
StrayExitBodies ==
    {Loop(kind, "p", <<e1>>, <<e2>>) : kind \in LoopKinds, e1 \in Exits, e2 \in Exits}
    \cup {Loop(kind, "p", <<e1>>, <<>>) \o <<e2>> : kind \in LoopKinds, e1 \in Exits, e2 \in Exits}

LoopPrograms ==
    {Program(body, "none", NoEnv) : body \in LoopBodies \cup StrayExitBodies}
    \cup {Program(Loop(kind, "p", <<Def("f", body), StmtBreak>>, <<>>), "none", NoEnv) :
            kind \in LoopKinds,
            body \in {Loop(ki, "q", <<e>>, <<>>) : ki \in LoopKinds, e \in Exits}}

\* comprehensions of every kind, with one `for` clause or two and each clause
\* plain or `async`, over the element `t` or `await t`, in an async function,
\* in a plain function and at module level
ComprehensionKinds == {"ListComp", "SetComp", "DictComp", "Generator"}

ComprehensionOf(kind, e, generators) ==
    CASE kind = "ListComp" -> ExprListComp(e, generators)
      [] kind = "SetComp" -> ExprSetComp(e, generators)
      [] kind = "DictComp" -> ExprDictComp(Name("t"), e, generators)
      [] kind = "Generator" -> ExprGenerator(e, generators)

Clauses ==
    {<<Comprehension(Name("t"), Name("x"), <<>>, a1)>> : a1 \in BOOLEAN}
    \cup {<<Comprehension(Name("u"), Name("x"), <<>>, a1),
            Comprehension(Name("t"), Name("u"), <<>>, a2)>> : a1 \in BOOLEAN, a2 \in BOOLEAN}

CallSiteComprehensions ==
    {ComprehensionOf(kind, e, generators) :
        kind \in ComprehensionKinds, e \in {Name("t"), ExprAwait(Name("t"))},
        generators \in Clauses}

CallSitePrograms ==
    {Program(body, "none", NoEnv) :
        body \in UNION {{InAsyncFunction(StmtExpr(e)), InFunction(StmtExpr(e)),
                         InModule(StmtExpr(e))} : e \in CallSiteComprehensions}}

\* a nested scope of each kind in the body of a loop, in a scope of each
\* kind, followed by a `break` of that loop
NestedScopes ==
    {Def("g", <<Mark("m")>>), AsyncDef("g", <<Mark("m")>>), Class("D", <<Mark("m")>>),
     StmtExpr(ExprLambda(None, Name("m"))),
     StmtExpr(ExprListComp(Name("t"), <<Comprehension(Name("t"), Name("x"), <<>>, FALSE)>>)),
     StmtExpr(ExprGenerator(Name("t"), <<Comprehension(Name("t"), Name("x"), <<>>, FALSE)>>))}

ContextPrograms ==
    {Program(body, "none", NoEnv) :
        body \in UNION {{InModule(l), InClass(l), InFunction(l), InAsyncFunction(l)} :
                          l \in {StmtWhile(Name("w"), <<n, StmtBreak>>, <<>>) :
                                    n \in NestedScopes}}}

\* nested scopes one after the other at module level, each with a name and
\* with names in its body that no other has; one of them is the lambda of
\* `assert (lambda: a)`
AssertLambda == StmtAssert(ExprLambda(None, Name("a")), None)

ScopeStatements ==
    {AssertLambda,
     Def("h", <<StmtReturn(Some(Name("m")))>>),
     Def("f", <<Def("g", <<Mark("p")>>), Class("D", <<Mark("q")>>)>>),
     Class("C", <<Def("k", <<Mark("n")>>)>>)}

PairingBodies ==
    {<<s1>> : s1 \in ScopeStatements}
    \cup {<<p[1], p[2]>> : p \in {q \in ScopeStatements \X ScopeStatements : q[1] # q[2]}}

PairingPrograms == {Program(body, "none", NoEnv) : body \in PairingBodies}

\* with statements of one to three items m1, m2, m3, each with or without
\* `as v`, plain at module level and in a function, plain and async in an
\* async function; and the with statements the compiler rejects
ManagerNames == <<"m1", "m2", "m3">>

WithItems(n, named) ==
    [i \in 1..n |-> WithItem(Name(ManagerNames[i]),
                             IF i \in named THEN Some(Name("v")) ELSE None)]

WithStatements(is_async) ==
    {StmtWith(WithItems(n, named), <<Mark("body")>>, is_async) :
        n \in 1..3, named \in {{}, {1}, {2}, {1, 2, 3}}}

EmptyWiths ==
    {StmtWith(<<>>, <<Mark("body")>>, FALSE), StmtWith(WithItems(2, {}), <<>>, FALSE)}

WithPrograms ==
    {Program(body, "none", NoEnv) :
        body \in UNION {{InModule(w), InFunction(w), InAsyncFunction(w)} :
                          w \in WithStatements(FALSE) \cup EmptyWiths}
                 \cup {InAsyncFunction(w) : w \in WithStatements(TRUE)}}

FuturePrograms ==
    {Program(body, "none", NoEnv) : body \in WellPlacedFuture \cup MisplacedFuture}

Programs ==
    {AssignProgram} \cup BoolPrograms \cup ComparePrograms \cup TryPrograms
    \cup ClosurePrograms \cup OptimizePrograms \cup PermittedPrograms
    \cup UNION {RejectedPrograms(kind) : kind \in ConstructKinds}
    \cup AsyncReturnPrograms \cup FuturePrograms \cup ComprehensionPrograms
    \cup ForbiddenNamePrograms \cup AbortPrograms \cup MatchPrograms
    \cup LoopPrograms \cup CallSitePrograms \cup ContextPrograms
    \cup PairingPrograms \cup WithPrograms

OptimizeLevels == {0, 1, 2}

(***************************************************************************)
(* The driver: compile_program on one program, a top-level statement at a  *)
(* time, and then a frame running the code object the program names.       *)
(***************************************************************************)
IdleFrame == [status |-> "idle"]

statements_of(inp) == split_doc(inp.program.body, inp.opts).body

\* the code object of the first function the module defines
first_function(co) ==
    LET codes == SelectSeq(co.constants, LAMBDA k : k.t = "Code")
    IN codes[1].code

Init ==
    /\ input \in [program : Programs, opts : {CompileOpts(o) : o \in OptimizeLevels}]
    /\ compiler = new(input.opts, "<module>")
    /\ pc = [phase |-> "begin", next |-> 1, size_before |-> 0]
    /\ code = None
    /\ frame = IdleFrame

Begin ==
    /\ pc.phase = "begin"
    /\ compiler' = self_compile_program_begin(compiler, input.program.body,
                                         scan_program(input.program.body))
    /\ pc' = [pc EXCEPT !.phase = "body", !.size_before = Len(compiler.code_stack)]
    /\ UNCHANGED <<input, code, frame>>

Statement ==
    /\ pc.phase = "body"
    /\ pc.next <= Len(statements_of(input))
    /\ compiler' = self_compile_statement(compiler, statements_of(input)[pc.next])
    /\ pc' = IF Failed(compiler') THEN [pc EXCEPT !.phase = "failed"]
             ELSE [pc EXCEPT !.next = @ + 1]
    /\ UNCHANGED <<input, code, frame>>

Finish ==
    /\ pc.phase = "body"
    /\ pc.next > Len(statements_of(input))
    /\ LET popped == self_pop_code_object(self_compile_program_end(compiler, pc.size_before))
       IN /\ compiler' = popped.c
          /\ code' = popped.code
          /\ pc' = [pc EXCEPT !.phase = IF Failed(popped.c) THEN "failed" ELSE "done"]
    /\ UNCHANGED <<input, frame>>

Run ==
    /\ pc.phase = "done"
    /\ frame.status = "idle"
    /\ input.program.entry # "none"
    /\ frame' = NewFrame(IF input.program.entry = "function" THEN first_function(code[1])
                         ELSE code[1],
                         input.program.env)
    /\ UNCHANGED <<input, compiler, pc, code>>

Step ==
    /\ frame.status = "running"
    /\ frame.steps < MaxSteps
    /\ frame' = IF frame.lasti < Len(frame.co.instructions)
                THEN execute_instruction(frame, frame.co.instructions[frame.lasti + 1])
                ELSE fatal(frame, "no instruction")
    /\ UNCHANGED <<input, compiler, pc, code>>

Next == Begin \/ Statement \/ Finish \/ Run \/ Step

Spec == Init /\ [][Next]_vars

(***************************************************************************)
(* Reading a code object: each instruction with the constant or the name   *)
(* its argument indexes.                                                   *)
(***************************************************************************)
ConstOps == {"LoadConst", "ReturnConst"}
NameOps == {"LoadNameAny", "StoreLocal", "DeleteLocal", "LoadGlobal", "StoreGlobal",
            "DeleteGlobal", "LoadAttr", "StoreAttr", "DeleteAttr", "ImportName",
            "ImportFrom"}
FastOps == {"LoadFast", "StoreFast", "DeleteFast"}
DerefOps == {"LoadDeref", "StoreDeref", "DeleteDeref", "LoadClassDeref", "LoadClosure"}

decode(co, ins) ==
    CASE ins.op \in ConstOps -> [op |-> ins.op, constant |-> co.constants[ins.arg + 1]]
      [] ins.op \in NameOps -> [op |-> ins.op, id |-> co.names[ins.arg + 1]]
      [] ins.op \in FastOps -> [op |-> ins.op, id |-> co.varnames[ins.arg + 1]]
      [] ins.op \in DerefOps ->
           [op |-> ins.op, id |-> (co.cellvars \o co.freevars)[ins.arg + 1]]
      [] OTHER -> ins

decoded(co) == [i \in 1..Len(co.instructions) |-> decode(co, co.instructions[i])]

Compiled(program, optimize) ==
    /\ pc.phase = "done"
    /\ input.program = program
    /\ input.opts.optimize = optimize

\* C1 (as the code has it): compiling the module-mode program `x = 1` (no
\* docstring, optimization level 0) yields a root code object whose instruction
\* sequence is exactly: load constant 1, store `x` with the dynamic-name store
\* StoreLocal, return constant None.
C1_AssignModule ==
    Compiled(AssignProgram, 0) =>
        decoded(code[1]) = <<[op |-> "LoadConst", constant |-> ConstInteger(1)],
                             [op |-> "StoreLocal", id |-> "x"],
                             [op |-> "ReturnConst", constant |-> ConstNone]>>

C1_Witness == Compiled(AssignProgram, 0) /\ Len(code[1].instructions) = 3

\* C1 as stated: the store is a global store.
C1_AsStated ==
    Compiled(AssignProgram, 0) =>
        decoded(code[1]) = <<[op |-> "LoadConst", constant |-> ConstInteger(1)],
                             [op |-> "StoreGlobal", id |-> "x"],
                             [op |-> "ReturnConst", constant |-> ConstNone]>>

(***************************************************************************)
(* What Python gives for an expression over names and integer literals:    *)
(* its value and the operands evaluated, in order.                         *)
(***************************************************************************)
py_cmp(op, a, b) ==
    CASE op = "Lt" -> a < b
      [] op = "LtE" -> a <= b
      [] op = "Gt" -> a > b
      [] op = "GtE" -> a >= b
      [] op = "Eq" -> a = b
      [] op = "NotEq" -> a # b

RECURSIVE py_eval(_, _), py_bool(_, _, _), py_compare(_, _, _, _)
py_eval(e, env) ==
    CASE e.k = "Name" -> [value |-> env[e.id], trace |-> <<[id |-> e.id]>>]
      [] e.k = "NumberLiteral" ->
           [value |-> ConstInteger(e.value), trace |-> <<ConstInteger(e.value)>>]
      [] e.k = "BoolOp" -> py_bool(e.op, e.values, env)
      [] e.k = "Compare" -> py_compare(py_eval(e.left, env), e.ops, e.comparators, env)

py_bool(op, values, env) ==
    LET first == py_eval(Head(values), env)
    IN IF \/ Len(values) = 1
          \/ op = "And" /\ ~truthy(first.value)
          \/ op = "Or" /\ truthy(first.value)
       THEN first
       ELSE LET rest == py_bool(op, Tail(values), env)
            IN [value |-> rest.value, trace |-> first.trace \o rest.trace]

py_compare(left, ops, comparators, env) ==
    LET right == py_eval(Head(comparators), env)
        result == py_cmp(Head(ops), left.value.i, right.value.i)
        trace == left.trace \o right.trace
    IN IF Len(ops) = 1 \/ ~result THEN [value |-> ConstBoolean(result), trace |-> trace]
       ELSE LET rest == py_compare([value |-> right.value, trace |-> <<>>],
                                   Tail(ops), Tail(comparators), env)
            IN [value |-> rest.value, trace |-> trace \o rest.trace]

IsPrefix(s, t) == Len(s) <= Len(t) /\ SubSeq(t, 1, Len(s)) = s

\* the frame is about to store the value of `r = <expression>`
AtStore ==
    /\ frame.status = "running"
    /\ frame.lasti < Len(frame.co.instructions)
    /\ frame.co.instructions[frame.lasti + 1].op = "StoreLocal"

\* the run of `r = <expression>` agrees with Python: the operands evaluated
\* are those Python evaluates, in its order; when the value is stored it is the
\* only value on the stack and it is Python's value; the run ends with the
\* stack empty
RunsAsPython ==
    LET ref == py_eval(input.program.body[1].value, input.program.env)
    IN /\ frame.status \notin {"raised", "fatal"}
       /\ frame.status = "running" => IsPrefix(frame.trace, ref.trace)
       /\ AtStore => frame.trace = ref.trace /\ frame.stack = <<ref.value>>
       /\ frame.status = "returned" =>
             /\ frame.trace = ref.trace
             /\ frame.locals["r"] = ref.value
             /\ frame.stack = <<>>

\* C5: the code emitted for an `and`/`or` chain in value position evaluates
\* operands left to right, stops at the first falsy operand (`and`) or the
\* first truthy operand (`or`) without evaluating any later operand, and on
\* every path leaves exactly one value on the evaluation stack: the operand
\* that decided the result, or the last operand.
C5_BoolOpValue == input.program \in BoolPrograms => RunsAsPython

\* a three-operand chain decided by its first operand
C5_Witness ==
    /\ input.program \in BoolPrograms
    /\ input.program.body[1].value.op = "And"
    /\ Len(input.program.body[1].value.values) = 3
    /\ AtStore
    /\ frame.trace = <<[id |-> "a"]>>
    /\ frame.stack = <<VObject("a", FALSE)>>

\* C6: the code emitted for a chained comparison of any length evaluates each
\* operand at most once, in source order; as soon as one comparison is false it
\* yields that false result without evaluating later operands, and on both the
\* early-exit path and the full path exactly one value (the result) remains on
\* the stack; `1 < 2 < 0` is false and evaluates `2` once.
C6_ChainedComparison ==
    /\ input.program \in ComparePrograms => RunsAsPython
    /\ input.program = LiteralCompareProgram /\ frame.status = "returned" =>
          /\ frame.locals["r"] = ConstBoolean(FALSE)
          /\ frame.trace = <<ConstInteger(1), ConstInteger(2), ConstInteger(0)>>

\* a four-operand chain left at its first comparison
C6_Witness ==
    /\ input.program \in ComparePrograms
    /\ Len(input.program.body[1].value.ops) = 3
    /\ AtStore
    /\ Len(frame.trace) = 2
    /\ frame.stack = <<ConstBoolean(FALSE)>>

\* the entries to a try body and the runs of its finally body, in order
TryMarkers(trace) == SelectSeq(trace, LAMBDA x : x \in {[id |-> "t"], [id |-> "fin"]})

\* each entry to the try body is followed by one run of the finally body
\* before the next entry
Alternating(markers) ==
    \A i \in 1..Len(markers) :
        markers[i] = IF i % 2 = 1 THEN [id |-> "t"] ELSE [id |-> "fin"]

\* the instructions, in the code object and the code objects nested in it,
\* that load the name `id`
RECURSIVE Sum(_)
Sum(ns) == IF ns = <<>> THEN 0 ELSE Head(ns) + Sum(Tail(ns))

RECURSIVE loads_of(_, _)
loads_of(co, id) ==
    LET ins == decoded(co)
        codes == SelectSeq(co.constants, LAMBDA k : k.t = "Code")
    IN Cardinality({i \in 1..Len(ins) :
                       ins[i].op \in {"LoadNameAny", "LoadGlobal", "LoadFast"}
                       /\ ins[i].id = id})
       + Sum([i \in 1..Len(codes) |-> loads_of(codes[i].code, id)])

\* C7: for a try statement with a finally clause, the finally body is emitted
\* once and runs exactly once on every exit path of the statement: normal
\* completion of the try body and else clause, an exception handled by a
\* handler, an unhandled exception that is re-raised, and a return, break or
\* continue inside the try body.
C7_FinallyOnce ==
    input.program \in TryPrograms =>
        /\ pc.phase = "done" => loads_of(code[1], "fin") = 1
        /\ frame.status # "fatal"
        /\ frame.status \in {"running", "returned", "raised"} =>
              Alternating(TryMarkers(frame.trace))
        /\ frame.status \in {"returned", "raised"} =>
              Len(TryMarkers(frame.trace)) % 2 = 0

\* a break inside a try/finally nested in a loop of two items: the finally
\* body has run and the loop was left after its first item
C7_Witness ==
    /\ input.program.body =
          <<ForN(<<Try(<<Mark("t"), Mark("x"), StmtBreak>>, <<>>, <<>>, Fin)>>)>>
    /\ input.program.env["n"] = ConstInteger(2)
    /\ input.program.env["x"] # VUnbound
    /\ frame.status = "returned"
    /\ TryMarkers(frame.trace) = <<[id |-> "t"], [id |-> "fin"]>>

\* the names a scope body uses directly (not in the scopes nested in it), in
\* the order of use
uses_of(body) ==
    LET events == SelectSeq(stmts_events(body), LAMBDA ev : ev.e \in {"load", "store"})
    IN [i \in 1..Len(events) |-> events[i].n]

\* the deref instructions compile_name emitted into a code object
name_derefs(co) ==
    SelectSeq(co.instructions,
              LAMBDA ins : ins.op \in {"LoadDeref", "StoreDeref", "DeleteDeref",
                                       "LoadClassDeref"})

\* the index the documentation gives a cell or free variable of a code object
deref_index(co, var) ==
    IF contains(co.cellvars, var) THEN get_index_of(co.cellvars, var)
    ELSE Len(co.cellvars) + get_index_of(co.freevars, var)

\* every use of a cell or free variable in the scope body is a deref
\* instruction with the variable's index
DerefsAgree(co, body) ==
    LET used == SelectSeq(uses_of(body),
                          LAMBDA n : contains(co.cellvars, n) \/ contains(co.freevars, n))
        derefs == name_derefs(co)
    IN /\ Len(derefs) = Len(used)
       /\ \A i \in 1..Len(used) : derefs[i].arg = deref_index(co, used[i])

\* the Cell symbols of a scope's table
cells_of(table) == scope_names(table, {"Cell"}, "")

\* C3: when a nested function references a variable assigned in its enclosing
\* function, the enclosing code unit lists the variable in its cell-variable
\* table, the nested code unit lists it in its free-variable table, and every
\* deref instruction for it in the nested scope uses one and the same index,
\* equal to (number of the nested scope's cell variables + the variable's
\* position in the nested scope's free-variable table); the cell-variable
\* table of the nested scope is the one it was entered with.
C3_ClosureIndex ==
    pc.phase = "done" /\ input.program \in ClosurePrograms =>
        LET f_def == input.program.body[1]
            f == first_function(code[1])
            g == first_function(f)
            f_table == scan_program(input.program.body).sub_tables[1]
            g_table == f_table.sub_tables[1]
            g_body == IF [k |-> "FunctionDef"] \in {[k |-> st.k] : st \in Range(f_def.body)}
                      THEN (CHOOSE st \in Range(f_def.body) : st.k = "FunctionDef").body
                      ELSE <<StmtExpr(Last(f_def.body).value[1].body)>>
        IN /\ contains(f.cellvars, "x")
           /\ contains(g.freevars, "x")
           /\ \A i \in 1..Len(g.instructions) :
                 g.instructions[i].op = "LoadDeref"
                 /\ decode(g, g.instructions[i]).id = "x"
                 => g.instructions[i].arg = Len(g.cellvars) + get_index_of(g.freevars, "x")
           /\ DerefsAgree(g, g_body)
           /\ DerefsAgree(f, f_def.body)
           /\ g.cellvars = cells_of(g_table)
           /\ f.cellvars = cells_of(f_table)

\* a nested function with a cell variable of its own, reading two variables
\* of the enclosing function, one of them twice
C3_Witness ==
    /\ pc.phase = "done"
    /\ input.program.body = ClosureBody3
    /\ Len(first_function(first_function(code[1])).cellvars) = 1
    /\ Len(first_function(first_function(code[1])).freevars) = 2
    /\ Len(name_derefs(first_function(first_function(code[1])))) = 4

ops_of(co) == [i \in 1..Len(co.instructions) |-> co.instructions[i].op]

\* the module code of `y = __debug__` loads the boolean b
DebugLoads(b) ==
    decoded(code[1]) = <<[op |-> "LoadConst", constant |-> ConstBoolean(b)],
                         [op |-> "StoreLocal", id |-> "y"],
                         [op |-> "ReturnConst", constant |-> ConstNone]>>

\* the module code of an assert statement is nothing but the final return
AssertDropped ==
    decoded(code[1]) = <<[op |-> "ReturnConst", constant |-> ConstNone]>>

\* C9 (as the code has it): at optimization level 0 assert statements are
\* compiled (the test, and the raise of AssertionError when it fails) and
\* loading `__debug__` emits the boolean constant True; at every level above
\* 0 an assert statement emits no instructions and `__debug__` emits False.
C9_OptimizeLevel ==
    /\ Compiled(AssertProgram, 0) =>
          ops_of(code[1]) = <<"LoadNameAny", "JumpIfTrue", "LoadGlobal",
                              "CallFunctionPositional", "Raise", "ReturnConst">>
    /\ Compiled(AssertMsgProgram, 0) =>
          ops_of(code[1]) = <<"LoadNameAny", "JumpIfTrue", "LoadGlobal", "LoadNameAny",
                              "CallFunctionPositional", "Raise", "ReturnConst">>
    /\ Compiled(DebugProgram, 0) => DebugLoads(TRUE)
    /\ \A o \in OptimizeLevels \ {0} :
          /\ Compiled(AssertProgram, o) \/ Compiled(AssertMsgProgram, o) => AssertDropped
          /\ Compiled(DebugProgram, o) => DebugLoads(FALSE)

C9_Witness == Compiled(AssertProgram, 0) /\ "Raise" \in Range(ops_of(code[1]))

\* C9 as stated: at optimization level 0 an assert statement emits no
\* instructions and `__debug__` is False.
C9_AsStated ==
    /\ Compiled(AssertProgram, 0) \/ Compiled(AssertMsgProgram, 0) => AssertDropped
    /\ Compiled(DebugProgram, 0) => DebugLoads(FALSE)

ErrorOf(kind) ==
    CASE kind = "break" -> "InvalidBreak"
      [] kind = "continue" -> "InvalidContinue"
      [] kind = "return" -> "InvalidReturn"
      [] kind = "yield" -> "InvalidYield"
      [] kind = "yield from" -> "InvalidYieldFrom"
      [] kind = "await" -> "InvalidAwait"

\* compiling the construct in the compiler state `c` gives the error of its
\* kind and leaves every code unit as it is
RejectedIn(c, kind) ==
    LET after == self_compile_statement(c, Construct(kind))
    IN after.error = ErrorOf(kind) /\ after.code_stack = c.code_stack

\* C10: a control-transfer construct outside a permitting context is rejected
\* with its specific error and emits nothing: break/continue with no enclosing
\* loop in the current scope (including directly in the body of a function or
\* class nested inside a loop) give InvalidBreak/InvalidContinue; return
\* outside a function body gives InvalidReturn; yield/yield from outside any
\* function give InvalidYield/InvalidYieldFrom; await anywhere other than in
\* an async function context gives InvalidAwait.  The compile of such a
\* program stops in the statement that holds the construct, with that error,
\* in a compiler state in which the construct emits nothing.
C10_Rejected ==
    \A kind \in ConstructKinds :
        input.program \in RejectedPrograms(kind) =>
            /\ pc.phase \in {"begin", "body", "failed"}
            /\ pc.next = 1
            /\ pc.phase = "failed" =>
                  /\ compiler.error = ErrorOf(kind)
                  /\ RejectedIn([compiler EXCEPT !.error = NoError, !.raised = <<>>], kind)

\* a break directly in the body of a class nested inside a loop
C10_Witness ==
    /\ input.program.body = InClassInLoop(StmtBreak)
    /\ pc.phase = "failed"
    /\ compiler.error = "InvalidBreak"
    /\ compiler.ctx.in_class
    /\ Len(compiler.code_stack) = 2

\* C11 as stated: compiling an async function whose body holds both a yield
\* expression and a return with a value fails with AsyncReturnValue, in
\* whichever order the yield and the return statement appear in the body.
C11_AsStated ==
    input.program \in AsyncReturnPrograms =>
        /\ pc.phase \in {"begin", "body", "failed"}
        /\ pc.phase = "failed" => compiler.error = "AsyncReturnValue"

\* what the code does with each order: the return that follows the yield is
\* rejected, the return that precedes it is compiled
C11_YieldFirstOnly ==
    /\ input.program = YieldThenReturn =>
          /\ pc.phase \in {"begin", "body", "failed"}
          /\ pc.phase = "failed" => compiler.error = "AsyncReturnValue"
    /\ input.program = ReturnThenYield => pc.phase # "failed"

C11_YieldFirstRejected ==
    /\ input.program = YieldThenReturn
    /\ pc.phase = "failed"
    /\ compiler.error = "AsyncReturnValue"

C11_ReturnFirstCompiled ==
    /\ input.program = ReturnThenYield
    /\ pc.phase = "done"
    /\ "IS_GENERATOR" \in first_function(code[1]).flags

\* C12 as stated: a `from __future__ import` is accepted only when every
\* statement before it in the module is another future import or the single
\* leading docstring; a future import after any other statement (a second
\* string-literal statement after the docstring included) or nested in a
\* compound statement fails with InvalidFuturePlacement.
C12_AsStated ==
    /\ input.program.body \in WellPlacedFuture => pc.phase # "failed"
    /\ input.program.body \in MisplacedFuture =>
          /\ pc.phase \in {"begin", "body", "failed"}
          /\ pc.phase = "failed" => compiler.error = "InvalidFuturePlacement"

\* what the code does: as stated, but for the string-literal statement that
\* follows the docstring, after which a future import is still accepted
C12_ButSecondString ==
    /\ input.program.body \in WellPlacedFuture \cup {SecondStringFuture} =>
          pc.phase # "failed"
    /\ input.program.body \in MisplacedFuture \ {SecondStringFuture} =>
          /\ pc.phase \in {"begin", "body", "failed"}
          /\ pc.phase = "failed" => compiler.error = "InvalidFuturePlacement"

C12_SecondStringCompiled ==
    /\ input.program.body = SecondStringFuture
    /\ pc.phase = "done"
    /\ compiler.future_annotations

C12_NestedRejected ==
    /\ input.program.body = <<StmtIf(Name("w"), <<Future("annotations")>>, <<>>)>>
    /\ pc.phase = "failed"
    /\ compiler.error = "InvalidFuturePlacement"

ComprehensionNames == {"<listcomp>", "<setcomp>", "<dictcomp>", "<genexpr>"}

\* a code unit under construction holds the code object of a comprehension
ComprehensionCodeProduced ==
    \E i \in 1..Len(compiler.code_stack) :
        \E j \in 1..Len(compiler.code_stack[i].constants) :
            LET constant == compiler.code_stack[i].constants[j]
            IN constant.t = "Code" /\ constant.code.obj_name \in ComprehensionNames

\* the compile fails with a syntax-shaped error and without a code object of
\* a comprehension
RejectedComprehension ==
    /\ pc.phase \in {"begin", "body", "failed"}
    /\ ~ComprehensionCodeProduced
    /\ pc.phase = "failed" =>
          /\ compiler.error \in {"InvalidAwait", "SyntaxError"}
          /\ current_code_info(compiler).obj_name \in ComprehensionNames

\* C13 as stated: when a list, set or dict comprehension is not lexically
\* inside an async function, an await in its element expression and an
\* `async for` among its generators each make the compile fail with a
\* syntax-shaped error raised at that construct, and no code object is
\* produced for the comprehension.
C13_AsStated ==
    input.program.body \in OutsideAsyncBodies(AwaitComprehensions \cup AsyncForComprehensions)
        => RejectedComprehension

\* what the code does: the await is rejected, the `async for` is compiled
C13_AwaitOnly ==
    /\ input.program.body \in OutsideAsyncBodies(AwaitComprehensions) =>
          /\ RejectedComprehension
          /\ pc.phase = "failed" => compiler.error = "InvalidAwait"
    /\ input.program.body \in OutsideAsyncBodies(AsyncForComprehensions) =>
          pc.phase # "failed"

C13_AwaitRejected ==
    /\ input.program.body \in OutsideAsyncBodies(AwaitComprehensions)
    /\ pc.phase = "failed"
    /\ compiler.error = "InvalidAwait"
    /\ current_code_info(compiler).obj_name = "<dictcomp>"

\* `[t async for t in x]` at module level compiles to a code object that
\* awaits the iterator's next item
C13_AsyncForCompiled ==
    /\ input.program.body = InModule(StmtExpr(ExprListComp(Name("t"),
                                <<Comprehension(Name("t"), Name("x"), <<>>, TRUE)>>)))
    /\ pc.phase = "done"
    /\ \E j \in 1..Len(code[1].constants) :
          /\ code[1].constants[j].t = "Code"
          /\ code[1].constants[j].code.obj_name = "<listcomp>"
          /\ \E i \in 1..Len(code[1].constants[j].code.instructions) :
                code[1].constants[j].code.instructions[i].op = "GetANext"

\* inside an async function both forms compile
C13_InAsyncCompiled ==
    /\ input.program.body \in {InAsyncFunction(StmtExpr(e)) :
                                  e \in AwaitComprehensions \cup AsyncForComprehensions}
    /\ pc.phase = "done"

\* an instruction for the target `__debug__`, `o.__debug__` or `__debug__=kv`
\* of the programs above: a store or a deletion, an attribute access, the
\* load of the target name (the constant of `__debug__`), of the object `o`
\* or of the keyword's value `kv`, or the constant of the keyword's name
TargetInstruction(info, ins) ==
    \/ ins.op \in {"StoreLocal", "StoreGlobal", "StoreFast", "StoreDeref", "DeleteLocal",
                   "DeleteGlobal", "DeleteFast", "DeleteDeref", "StoreAttr", "DeleteAttr",
                   "LoadAttr", "StoreSubscript", "DeleteSubscript"}
    \/ /\ ins.op \in {"LoadNameAny", "LoadGlobal"}
       /\ info.name_cache[ins.arg + 1] \in {"o", "kv", "__debug__"}
    \/ /\ ins.op = "LoadConst"
       /\ info.constants[ins.arg + 1].t = "Boolean"
          \/ info.constants[ins.arg + 1] = ConstStr("__debug__")

\* the instructions for the target that the code units under construction
\* hold, in order
TargetInstructions ==
    Flatten([u \in 1..Len(compiler.code_stack) |->
        Flatten([b \in 1..Len(compiler.code_stack[u].blocks) |->
            SelectSeq(compiler.code_stack[u].blocks[b].instructions,
                      LAMBDA ins : TargetInstruction(compiler.code_stack[u], ins))])])

ForbiddenNameErrors == {"SyntaxError: cannot assign to", "SyntaxError: cannot delete"}

LateLowered ==
    \E u \in 1..Len(compiler.code_stack) :
        \/ contains(compiler.code_stack[u].name_cache, "late")
        \/ contains(compiler.code_stack[u].varname_cache, "late")

\* a code unit has been finalized into a constant of a unit under construction
UnitFinalized ==
    \E u \in 1..Len(compiler.code_stack) :
        \E j \in 1..Len(compiler.code_stack[u].constants) :
            compiler.code_stack[u].constants[j].t = "Code"

\* the compile of an AbortBodies program has stopped at its first error: the
\* code units that were under construction there are all still unfinished,
\* nothing after the error has been lowered, and compile_program over the
\* whole module returns the error and no code object
Aborted ==
    /\ pc.phase \in {"begin", "body", "failed"}
    /\ code = None
    /\ ~LateLowered
    /\ ~UnitFinalized
    /\ pc.phase = "failed" =>
          /\ compiler.raised # <<>>
          /\ Len(compiler.code_stack) =
                (CASE input.program.body \in AbortBodiesAt1 -> 1
                   [] input.program.body \in AbortBodiesAt2 -> 2
                   [] input.program.body \in AbortBodiesAt3 -> 3)
          /\ LET top == compile_module(input.opts, input.program.body)
             IN top.code = None /\ top.c.error = compiler.error

\* C15 as stated: the first error raised by any lowering routine aborts the
\* whole compile: no later statement or expression is lowered, no code unit is
\* finalized afterwards, and the top-level compile call returns that first
\* error instead of a code object.
C15_AsStated ==
    input.program.body \in AbortBodies =>
        /\ Aborted
        /\ pc.phase = "failed" => compiler.error = compiler.raised[1]

\* C15 (as the code has it): as stated, except that the InvalidStarExpr raised
\* for a starred element of a comprehension is replaced on the way out by the
\* syntax error "iterable unpacking cannot be used in comprehension", which
\* is the error returned.
C15_FirstErrorAborts ==
    input.program.body \in AbortBodies =>
        /\ Aborted
        /\ pc.phase = "failed" =>
              IF input.program.body = StarredElement
              THEN compiler.raised = <<"InvalidStarExpr", IterableUnpacking>>
                   /\ compiler.error = IterableUnpacking
              ELSE compiler.raised = <<compiler.error>>

\* the await in the method of the class has failed with three code units
\* under construction
C15_Witness ==
    /\ input.program.body \in AbortBodiesAt3
    /\ pc.phase = "failed"
    /\ compiler.error = "InvalidAwait"
    /\ Len(compiler.code_stack) = 3

(***************************************************************************)
(* The block graph of a code unit.                                         *)
(***************************************************************************)
HasControlFlow(body) == \E i \in 1..Len(body) : body[i].k \in {"If", "While"}

\* the match statement of the program, at module level or in its function
MatchOf(inp) ==
    LET first == inp.program.body[1]
    IN IF first.k = "FunctionDef" THEN first.body[1] ELSE first

IsMatchProgram(inp) == inp.program \in MatchPrograms

\* a case before the last, lowered in full, whose body holds control flow
EarlierCaseWithControlFlow(inp) ==
    /\ IsMatchProgram(inp)
    /\ LET cases == MatchOf(inp).cases
       IN \E i \in 1..(Len(cases) - 1) : HasControlFlow(cases[i].body)

\* C17: within one code unit a block's successor link is set at most once:
\* once a block's `next` refers to a block, no later lowering operation makes
\* it refer to a different block.
C17_AsStated == compiler.next_changes = <<>>

\* Every change of a set link is the one compile_match_inner makes when it
\* chains the blocks of the cases: it replaces the link from a case block to
\* the block that its body's control flow switched to.
C17_OnlyMatchRelinks ==
    compiler.next_changes # <<>> =>
        /\ IsMatchProgram(input)
        /\ \E i \in 1..Len(MatchOf(input).cases) :
              HasControlFlow(MatchOf(input).cases[i].body)

\* no lowering trips switch_to_block's assertions
C17_SwitchNeverPanics ==
    compiler.error \notin {"panic: recursive switching",
                           "panic: switching to completed block",
                           "panic: switching from block that's already got a next"}

\* a match whose first case body is an `if` has been lowered: the link of
\* the first case block was changed
C17_Relinked ==
    /\ EarlierCaseWithControlFlow(input)
    /\ pc.phase = "done"
    /\ compiler.next_changes # <<>>

\* a match with straight-line bodies has been lowered
C17_StraightMatchCompiled ==
    /\ IsMatchProgram(input)
    /\ Len(MatchOf(input).cases) = 2
    /\ \A i \in 1..2 : ~HasControlFlow(MatchOf(input).cases[i].body)
    /\ pc.phase = "done"

Reached(info) == Range(iter_blocks(info.blocks, 0, Len(info.blocks)))

JumpTargets(info) ==
    UNION {{info.blocks[b].instructions[i].target :
               i \in 1..Len(info.blocks[b].instructions)} :
           b \in 1..Len(info.blocks)} \ {NULL}

\* every block that holds instructions or is the target of a jump is on the
\* chain of `next` links from the entry block
AllBlocksReached(info) ==
    \A b \in 0..(Len(info.blocks) - 1) :
        (info.blocks[b + 1].instructions # <<>> \/ b \in JumpTargets(info))
            => b \in Reached(info)

TargetOps ==
    {"Jump", "JumpIfFalse", "JumpIfTrue", "JumpIfFalseOrPop", "JumpIfTrueOrPop",
     "ForIter", "Break", "Continue", "SetupExcept", "SetupFinally"}

\* every jump of the code object has a position in its instruction stream
JumpsResolved(co) ==
    \A i \in 1..Len(co.instructions) :
        co.instructions[i].op \in TargetOps =>
            co.instructions[i].arg \in 0..Len(co.instructions)

\* the module's unit is about to be finalized
ModuleLowered ==
    /\ pc.phase = "body"
    /\ pc.next > Len(statements_of(input))

\* C18: when a code unit is finalized, every block that holds instructions
\* and every block that a jump targets is reached by the `next` links from
\* the entry block, and every jump of the flattened stream has a position
\* in it; for every statement form, a match with control flow in its case
\* bodies included.
C18_AsStated ==
    /\ ModuleLowered => AllBlocksReached(current_code_info(compiler))
    /\ code # None => JumpsResolved(code[1])

\* Units whose blocks are not all reached come from a match with control
\* flow in a case body.
C18_OnlyMatchDropsBlocks ==
    (ModuleLowered /\ ~AllBlocksReached(current_code_info(compiler))) =>
        /\ IsMatchProgram(input)
        /\ \E i \in 1..Len(MatchOf(input).cases) :
              HasControlFlow(MatchOf(input).cases[i].body)

\* the jump that ends the first case was in a block the chain lost: the
\* finalized module holds only the jump of the last case
C18_CaseFallsThrough ==
    /\ EarlierCaseWithControlFlow(input)
    /\ input.program.body[1].k = "Match"
    /\ pc.phase = "done"
    /\ code # None
    /\ Len(SelectSeq(code[1].instructions, LAMBDA ins : ins.op = "Jump")) < 2

(***************************************************************************)
(* Loop targets.  What the language gives for the breaks and continues of  *)
(* a scope, in source order: the innermost loop of the scope around each,   *)
(* or none.                                                                *)
(***************************************************************************)
LoopOf(statement) ==
    IF statement.k = "While" THEN [id |-> statement.test.id, kind |-> "while"]
    ELSE [id |-> statement.target.id, kind |-> "for"]

RECURSIVE exits(_, _)
exits(statements, loop) ==
    IF statements = <<>> THEN <<>>
    ELSE LET statement == Head(statements)
             here ==
                 CASE statement.k \in {"Break", "Continue"} ->
                        <<[op |-> statement.k, loop |-> loop]>>
                   [] statement.k \in {"While", "For"} ->
                        exits(statement.body, Some(LoopOf(statement)))
                        \o exits(statement.orelse, loop)
                   [] statement.k = "If" ->
                        exits(statement.body, loop)
                        \o Flatten([i \in 1..Len(statement.elif_else_clauses) |->
                                       exits(statement.elif_else_clauses[i].body, loop)])
                   [] OTHER -> <<>>
         IN here \o exits(Tail(statements), loop)

\* instruction i of the code object names `id`
IsNamed(co, i, id) ==
    /\ co.instructions[i].op \in NameOps \cup FastOps
    /\ decode(co, co.instructions[i]).id = id

\* the offset of the first instruction of the code object that names `id`
name_offset(co, id) ==
    (CHOOSE i \in 1..Len(co.instructions) :
        /\ IsNamed(co, i, id)
        /\ \A j \in 1..(i - 1) : ~IsNamed(co, j, id)) - 1

\* the offset of the block a loop's continue goes to: the test of a while,
\* the ForIter of a for (the instruction before the store of its target)
head_offset(co, loop) ==
    IF loop.kind = "while" THEN name_offset(co, loop.id) ELSE name_offset(co, loop.id) - 1

\* the offset of the block a loop's break goes to: what follows the loop
after_offset(co, loop) == name_offset(co, AfterMark(loop.id))

ExitTargets(co) ==
    LET found == SelectSeq(co.instructions, LAMBDA ins : ins.op \in {"Break", "Continue"})
    IN [i \in 1..Len(found) |-> [op |-> found[i].op, arg |-> found[i].arg]]

ExpectedTargets(co, expected) ==
    [i \in 1..Len(expected) |->
        [op |-> expected[i].op,
         arg |-> IF expected[i].op = "Break" THEN after_offset(co, expected[i].loop[1])
                 ELSE head_offset(co, expected[i].loop[1])]]

HasStray(expected) == \E i \in 1..Len(expected) : expected[i].loop = None

FirstStray(expected) ==
    expected[CHOOSE i \in 1..Len(expected) :
                /\ expected[i].loop = None
                /\ \A j \in 1..(i - 1) : expected[j].loop # None]

IsLoopProgram == input.program \in LoopPrograms

\* the function the first loop of the program defines in its body, if any
LoopFunction ==
    LET first == input.program.body[1].body[1]
    IN IF first.k = "FunctionDef" THEN Some(first) ELSE None

\* C20: a break or continue in the body of a loop targets the innermost
\* enclosing while/for loop of the same scope: break the loop's after block,
\* continue its test/iterate block; the statements of a loop's else clause and
\* the statements after the loop use the targets that were in force before
\* the loop: those of the enclosing loop, or none (and then the exit is
\* rejected).
C20_LoopTargets ==
    IsLoopProgram =>
        LET expected == exits(input.program.body, None)
        IN /\ pc.phase = "done" =>
                /\ ~HasStray(expected)
                /\ ExitTargets(code[1]) = ExpectedTargets(code[1], expected)
                /\ LoopFunction # None =>
                      LET co == first_function(code[1])
                      IN ExitTargets(co) =
                            ExpectedTargets(co, exits(LoopFunction[1].body, None))
           /\ pc.phase = "failed" =>
                /\ HasStray(expected)
                /\ compiler.error = IF FirstStray(expected).op = "Break"
                                    THEN "InvalidBreak" ELSE "InvalidContinue"

\* two nested loops are lowered with a break in the inner body, a continue
\* in the inner else clause and a break after the inner loop
C20_Witness ==
    /\ input.program.body \in NestedLoops
    /\ pc.phase = "done"
    /\ LET inner == input.program.body[1].body[1]
       IN /\ input.program.body[1].k = "While"
          /\ inner.k = "For"
          /\ inner.body[2] = StmtBreak
          /\ inner.orelse = <<StmtContinue>>
          /\ input.program.body[1].body[3] = StmtBreak
    /\ [i \in 1..3 |-> ExitTargets(code[1])[i].op] = <<"Break", "Continue", "Break">>

\* an exit in the else clause of an outermost loop is rejected
C20_StrayRejected ==
    /\ input.program.body \in StrayExitBodies
    /\ pc.phase = "failed"
    /\ compiler.error = "InvalidContinue"

(***************************************************************************)
(* The call site of a comprehension: the code unit that makes the          *)
(* synthetic function and calls it, and the code object of the function.   *)
(***************************************************************************)
IsCallSiteProgram == input.program \in CallSitePrograms /\ pc.phase = "done"

\* the comprehension of the program
SiteComprehension ==
    LET first == input.program.body[1]
    IN IF first.k = "FunctionDef" THEN first.body[1].value ELSE first.value

\* the code object of the unit that holds the call
SiteCode ==
    IF input.program.body[1].k = "FunctionDef" THEN first_function(code[1]) ELSE code[1]

\* the code object of the synthetic function
ComprehensionCode ==
    LET codes == SelectSeq(SiteCode.constants,
                           LAMBDA k : k.t = "Code" /\ k.code.obj_name \in ComprehensionNames)
    IN codes[1].code

\* the position of the call of the synthetic function in the site's code
CallAt ==
    CHOOSE i \in 1..Len(SiteCode.instructions) :
        SiteCode.instructions[i].op = "CallFunctionPositional"

\* the call is followed by GetAwaitable, a load of None, YieldFrom
CallAwaited ==
    /\ CallAt + 3 <= Len(SiteCode.instructions)
    /\ SiteCode.instructions[CallAt + 1].op = "GetAwaitable"
    /\ decode(SiteCode, SiteCode.instructions[CallAt + 2]) =
          [op |-> "LoadConst", constant |-> ConstNone]
    /\ SiteCode.instructions[CallAt + 3].op = "YieldFrom"

CompiledAsAsync == "IS_COROUTINE" \in ComprehensionCode.flags

\* C24: whenever a comprehension of any kind (list, set, dict or generator
\* expression) is compiled as asynchronous, the call of its synthetic
\* function at the enclosing call site is followed by an await of the result
\* of the call (GetAwaitable, load None, YieldFrom).
C24_AsStated == (IsCallSiteProgram /\ CompiledAsAsync) => CallAwaited

\* C24 (as the code has it): the call of a list, set or dict comprehension
\* that is compiled as asynchronous is followed by GetAwaitable, load None,
\* YieldFrom; the call of a generator expression is never followed by an
\* await, whether it is compiled as asynchronous or not, and neither is the
\* call of a comprehension that is not compiled as asynchronous.
C24_AwaitedUnlessGenerator ==
    IsCallSiteProgram =>
        (CallAwaited <=> (CompiledAsAsync /\ SiteComprehension.k # "Generator"))

\* `async def f(): [t async for t in x]` is compiled with the await of the
\* call
C24_Witness ==
    /\ IsCallSiteProgram
    /\ SiteComprehension.k = "ListComp"
    /\ CompiledAsAsync
    /\ CallAwaited

\* `(t async for t in x)` at module level is compiled as asynchronous and its
\* call is not awaited
C24_AsyncGeneratorNotAwaited ==
    /\ IsCallSiteProgram
    /\ SiteComprehension.k = "Generator"
    /\ input.program.body[1].k # "FunctionDef"
    /\ CompiledAsAsync
    /\ ~CallAwaited

CountOp(co, op) == Len(SelectSeq(co.instructions, LAMBDA ins : ins.op = op))

SiteClauses == SiteComprehension.generators

\* what follows the k-th `Jump loop_block` of the synthetic function is the
\* exit of the loop of clause n + 1 - k
LoopExits(co) ==
    LET jumps == {i \in 1..Len(co.instructions) : co.instructions[i].op = "Jump"}
    IN [k \in 1..Cardinality(jumps) |->
           co.instructions[(CHOOSE i \in jumps :
                               Cardinality({j \in jumps : j <= i}) = k) + 1].op]

EpiloguePerClause(co) ==
    /\ Len(LoopExits(co)) = Len(SiteClauses)
    /\ \A k \in 1..Len(SiteClauses) :
          (LoopExits(co)[k] = "EndAsyncFor") <=> SiteClauses[Len(SiteClauses) + 1 - k].is_async

IteratorsPerClause(co) ==
    LET async == Cardinality({i \in 1..Len(SiteClauses) : SiteClauses[i].is_async})
        later == Cardinality({i \in 2..Len(SiteClauses) : SiteClauses[i].is_async})
    IN /\ CountOp(co, "GetANext") = async
       /\ CountOp(co, "ForIter") = Len(SiteClauses) - async
       /\ CountOp(co, "GetAIter") = later
       /\ CountOp(co, "GetIter") = Len(SiteClauses) - 1 - later

\* C25: in a comprehension with several `for` clauses the instructions of
\* asynchronous iteration are emitted per clause: the outermost iterable is
\* made an async iterator at the call site only when the first clause is
\* `async for`, and EndAsyncFor is emitted at the exit of the loop of a
\* clause only when that clause is `async for`; clauses that are not async
\* get GetIter/ForIter only.
C25_AsStated ==
    IsCallSiteProgram =>
        /\ SiteCode.instructions[CallAt - 1].op =
              IF SiteClauses[1].is_async THEN "GetAIter" ELSE "GetIter"
        /\ EpiloguePerClause(ComprehensionCode)
        /\ IteratorsPerClause(ComprehensionCode)

\* At the call site and at the loop exits the code asks whether any clause is
\* `async for`; inside the synthetic function the iterators are per clause.
C25_AnyClause ==
    IsCallSiteProgram =>
        LET any == \E i \in 1..Len(SiteClauses) : SiteClauses[i].is_async
        IN /\ SiteCode.instructions[CallAt - 1].op = IF any THEN "GetAIter" ELSE "GetIter"
           /\ Len(LoopExits(ComprehensionCode)) = Len(SiteClauses)
           /\ \A k \in 1..Len(SiteClauses) :
                 (LoopExits(ComprehensionCode)[k] = "EndAsyncFor") <=> any
           /\ IteratorsPerClause(ComprehensionCode)

\* `[t for u in x async for t in u]` in an async function: the call site
\* makes an async iterator of x for a first clause that iterates with ForIter
C25_MixedClauses ==
    /\ IsCallSiteProgram
    /\ Len(SiteClauses) = 2
    /\ ~SiteClauses[1].is_async
    /\ SiteClauses[2].is_async
    /\ SiteCode.instructions[CallAt - 1].op = "GetAIter"
    /\ CountOp(ComprehensionCode, "ForIter") = 1
    /\ CountOp(ComprehensionCode, "EndAsyncFor") = 2

\* the nested scopes compiled so far, in the order in which their code
\* units were popped
NestedEntries == {compiler.ctx_log[i] : i \in 1..Len(compiler.ctx_log)} \ 
                 {e \in {compiler.ctx_log[i] : i \in 1..Len(compiler.ctx_log)} :
                     e.kind = "module"}

\* the function kind of a nested scope itself
OwnFunctionKind(e) ==
    CASE e.kind = "class" -> "NoFunction"
      [] e.kind = "lambda" -> "Function"
      [] OTHER -> IF "IS_COROUTINE" \in e.flags THEN "AsyncFunction" ELSE "Function"

\* C26: the compile context is saved before and restored after every nested
\* function, lambda, class body and comprehension, and nothing of the
\* enclosing context is in force inside a nested function: no loop targets,
\* the inside-class flag off, and the function kind of the function itself.
C26_AsStated ==
    \A e \in NestedEntries :
        /\ e.after = e.before
        /\ e.kind \in {"function", "lambda"} =>
               e.inside = CompileContext(None, FALSE, OwnFunctionKind(e))

\* C26, as the code has it: the context is restored after every nested
\* scope; inside a nested function, lambda or comprehension there are no
\* loop targets and the function kind is the scope's own, while the
\* inside-class flag is the one of the enclosing scope; inside a class body
\* the flag is on and there is neither a loop nor a function.  Between the
\* statements of the module the context is the initial one.
C26_SavedAndRestored ==
    /\ \A e \in NestedEntries :
          /\ e.after = e.before
          /\ e.inside = CompileContext(None,
                                       IF e.kind = "class" THEN TRUE ELSE e.before.in_class,
                                       OwnFunctionKind(e))
    /\ ~Failed(compiler) => compiler.ctx = CompileContext(None, FALSE, "NoFunction")

\* a function compiled in the body of a loop of a class body: the loop
\* targets of the enclosing scope were in force before and after it
C26_Witness ==
    /\ ModuleLowered
    /\ ~Failed(compiler)
    /\ \E e \in NestedEntries :
          /\ e.kind = "function"
          /\ e.before.loop_data # None
          /\ e.before.in_class
          /\ e.inside.loop_data = None
          /\ e.after = e.before

\* the inside-class flag of a class body is in force inside its method
C26_FlagInherited ==
    \E e \in NestedEntries :
        /\ e.kind = "function"
        /\ e.before.in_class
        /\ e.inside.in_class

\* the symbol table of the module, as compile_program receives it
RootTable == scan_program(input.program.body)

\* the table of the scope in which the i-th code unit pushed is nested: the
\* one of the code unit pushed last on the next lower depth, or the module's
ParentIndex(i) ==
    LET log == compiler.scope_log
        above == {j \in 1..(i - 1) : log[j].depth = log[i].depth - 1}
    IN IF above = {} THEN 0 ELSE CHOOSE j \in above : \A j2 \in above : j2 <= j

ParentTable(i) ==
    IF ParentIndex(i) = 0 THEN RootTable ELSE compiler.scope_log[ParentIndex(i)].table

\* the i-th code unit pushed is the Rank(i)-th scope entered in its parent
Rank(i) ==
    Cardinality({j \in (ParentIndex(i) + 1)..i :
                    compiler.scope_log[j].depth = compiler.scope_log[i].depth})

ConsumedInOrder ==
    \A i \in 1..Len(compiler.scope_log) :
        /\ Rank(i) <= Len(ParentTable(i).sub_tables)
        /\ compiler.scope_log[i].table = ParentTable(i).sub_tables[Rank(i)]

\* the names of the scopes nested in the module, in source order
IsPairingProgram == input.program \in PairingPrograms

ScopeNameOf(statement) == IF statement.k = "Assert" THEN "<lambda>" ELSE statement.name

TopScopes == [i \in 1..Len(input.program.body) |-> ScopeNameOf(input.program.body[i])]

\* every scope nested in the module has the table scanned for it
OwnTables ==
    IsPairingProgram =>
        \A i \in 1..Len(compiler.scope_log) :
            compiler.scope_log[i].depth = 1 =>
                \E k \in 1..Len(TopScopes) :
                    /\ TopScopes[k] = compiler.scope_log[i].name
                    /\ compiler.scope_log[i].table = RootTable.sub_tables[k]

ChildrenLeftAtPop ==
    \E i \in 1..Len(compiler.raised) :
        compiler.raised[i] = "panic: assertion failed: table.sub_tables.is_empty()"

DepthRestored ==
    (ModuleLowered /\ ~Failed(compiler)) => Len(compiler.code_stack) = pc.size_before

\* C27: nested scopes and the children of the symbol table stay paired: the
\* k-th scope entered while a scope is compiled receives the k-th child of
\* that scope's table, which is the table of that nested scope; no code unit
\* is finalized with children of its table left; and after the module body
\* has compiled the code stack is as deep as before.
C27_AsStated ==
    /\ ConsumedInOrder
    /\ OwnTables
    /\ ~ChildrenLeftAtPop
    /\ DepthRestored

\* C27, as the code has it: the children are taken in order and the depth is
\* restored, and the pairing holds as long as no `assert` holding a nested
\* scope is left out of the code.
C27_PairedUnlessAssertElided ==
    /\ ConsumedInOrder
    /\ DepthRestored
    /\ (input.opts.optimize = 0 \/ ~\E i \in 1..Len(input.program.body) :
                                        input.program.body[i] = AssertLambda)
          => (OwnTables /\ ~ChildrenLeftAtPop)

\* `assert (lambda: a)` then `def h`, with optimization: h was given the
\* table of the lambda
C27_WrongTable ==
    /\ IsPairingProgram
    /\ input.opts.optimize > 0
    /\ TopScopes = <<"<lambda>", "h">>
    /\ \E i \in 1..Len(compiler.scope_log) :
          /\ compiler.scope_log[i].name = "h"
          /\ compiler.scope_log[i].table = RootTable.sub_tables[1]
          /\ RootTable.sub_tables[1] # RootTable.sub_tables[2]

\* two scopes at module level and scopes nested in them, all paired
C27_Paired ==
    /\ IsPairingProgram
    /\ ModuleLowered
    /\ ~Failed(compiler)
    /\ Len(compiler.scope_log) = 5
    /\ C27_AsStated

IsWithProgram == input.program \in WithPrograms

\* the with statement of the program, and the code object that holds it
WithStatement ==
    IF input.program.body[1].k = "FunctionDef" THEN input.program.body[1].body[1]
    ELSE input.program.body[1]

WithCode ==
    IF input.program.body[1].k = "FunctionDef" THEN first_function(code[1]) ELSE code[1]

\* the positions in the code object of the instructions with one of `ops`,
\* in ascending order
PositionsOf(co, ops) ==
    LET at == {i \in 1..Len(co.instructions) : co.instructions[i].op \in ops}
    IN [k \in 1..Cardinality(at) |->
           CHOOSE i \in at : Cardinality({j \in at : j <= i}) = k]

WithSetups == PositionsOf(WithCode, {"SetupWith", "SetupAsyncWith"})
WithCleanups == PositionsOf(WithCode, {"WithCleanupStart"})
WithBody == name_offset(WithCode, "body") + 1

WithLowered == IsWithProgram /\ pc.phase = "done" /\ code # None

\* C29: for a with statement with the items m1..mn, the code enters the
\* context managers in source order and runs their exits in the reverse
\* order, each item with one setup and one cleanup block, nested around the
\* body: start(m1) ... start(mn) body end(mn) ... end(m1).
C29_WithNesting ==
    WithLowered =>
        LET n == Len(WithStatement.items)
            co == WithCode
            load(i) == IF WithStatement.is_async THEN WithSetups[i] - 5 ELSE WithSetups[i] - 1
        IN /\ Len(WithSetups) = n
           /\ Len(WithCleanups) = n
           /\ CountOp(co, "WithCleanupFinish") = n
           /\ \A i \in 1..n :
                 /\ IsNamed(co, load(i), ManagerNames[i])
                 /\ co.instructions[WithSetups[i]].op =
                        (IF WithStatement.is_async THEN "SetupAsyncWith" ELSE "SetupWith")
                 /\ co.instructions[WithSetups[i]].arg = WithCleanups[n + 1 - i] - 1
                 /\ co.instructions[WithCleanups[i] - 2].op = "PopBlock"
                 /\ co.instructions[WithCleanups[i] - 1].op = "EnterFinally"
                 /\ co.instructions[WithCleanups[i] + (IF WithStatement.is_async THEN 4 ELSE 1)].op
                        = "WithCleanupFinish"
           /\ WithSetups[n] < WithBody
           /\ WithBody < WithCleanups[1]
           /\ \A i \in 1..(n - 1) :
                 /\ WithSetups[i] < WithSetups[i + 1]
                 /\ WithCleanups[i] < WithCleanups[i + 1]

\* three items in an async function, entered and left
C29_Witness ==
    /\ WithLowered
    /\ Len(WithStatement.items) = 3
    /\ WithStatement.is_async
    /\ Len(WithSetups) = 3
    /\ WithCode.instructions[WithSetups[1]].arg = WithCleanups[3] - 1
    /\ WithCode.instructions[WithSetups[3]].arg = WithCleanups[1] - 1

\* a with statement without items or without a body is rejected
C29_EmptyRejected ==
    (IsWithProgram /\ WithStatement \in EmptyWiths /\ pc.phase \in {"done", "failed"})
        => /\ Failed(compiler)
           /\ compiler.raised \in {<<"EmptyWithItems">>, <<"EmptyWithBody">>}

(***************************************************************************)
(* Name resolution on its own: a scope of each kind is entered with a      *)
(* symbol table that holds a symbol of every classification, and           *)
(* compile_name is applied to up to MaxUses uses of its names.             *)
(***************************************************************************)
ModuleSymbols ==
    <<Symbol("l", "Local", {}), Symbol("ge", "GlobalExplicit", {}),
      Symbol("gi", "GlobalImplicit", {}), Symbol("u", "Unknown", {}),
      Symbol("__debug__", "GlobalImplicit", {})>>

ScopeSymbols ==
    ModuleSymbols \o <<Symbol("fr", "Free", {}), Symbol("ce", "Cell", {}),
                       Symbol("fr2", "Free", {})>>

ScopeKinds ==
    {"module", "class", "function", "async function", "class in function",
     "function in class"}

ScopeContext(kind) ==
    CASE kind = "module" -> CompileContext(None, FALSE, "NoFunction")
      [] kind = "class" -> CompileContext(None, TRUE, "NoFunction")
      [] kind = "function" -> CompileContext(None, FALSE, "Function")
      [] kind = "async function" -> CompileContext(None, FALSE, "AsyncFunction")
      [] kind = "class in function" -> CompileContext(None, TRUE, "NoFunction")
      [] kind = "function in class" -> CompileContext(None, TRUE, "Function")

\* the compiler as it stands on entering the body of a scope of the kind
EnterScope(kind, opts) ==
    LET c0 == new(opts, "<module>")
    IN IF kind = "module"
       THEN [c0 EXCEPT !.symbol_table_stack = <<SymbolTable("Module", ModuleSymbols, <<>>)>>]
       ELSE LET typ == IF kind \in {"class", "class in function"} THEN "Class"
                       ELSE "Function"
                outer == SymbolTable("Module", <<>>, <<SymbolTable(typ, ScopeSymbols, <<>>)>>)
                c1 == [c0 EXCEPT !.symbol_table_stack = <<outer>>]
                c2 == self_push_output(c1, IF typ = "Class" THEN {}
                                      ELSE {"NEW_LOCALS", "IS_OPTIMIZED"}, 0, 0, 0, "scope")
            IN self_set_ctx(c2, ScopeContext(kind))

NameUsages == {"Load", "Store", "Delete"}

NamesInit ==
    /\ input \in [kind : ScopeKinds, opts : {CompileOpts(o) : o \in OptimizeLevels}]
    /\ compiler = EnterScope(input.kind, input.opts)
    /\ pc = [uses |-> <<>>]
    /\ code = None
    /\ frame = IdleFrame

UseName ==
    /\ ~Failed(compiler)
    /\ Len(pc.uses) < MaxUses
    /\ \E sym \in Range(Last(compiler.symbol_table_stack).symbols), usage \in NameUsages :
          /\ compiler' = self_compile_name(compiler, sym.name, usage)
          /\ pc' = [pc EXCEPT !.uses = Append(@, [id |-> sym.name, usage |-> usage])]
    /\ UNCHANGED <<input, code, frame>>

NamesNext == UseName

SpecNames == NamesInit /\ [][NamesNext]_vars

\* the rule table of the claim
RuleFamily(scope, in_function) ==
    CASE scope = "GlobalExplicit" -> "global"
      [] scope \in {"GlobalImplicit", "Unknown"} -> IF in_function THEN "global" ELSE "name"
      [] scope = "Local" -> IF in_function THEN "fast" ELSE "name"
      [] scope \in {"Free", "Cell"} -> "deref"

FamilyOps(family, usage) ==
    CASE family = "fast" /\ usage = "Load" -> {"LoadFast"}
      [] family = "fast" /\ usage = "Store" -> {"StoreFast"}
      [] family = "fast" /\ usage = "Delete" -> {"DeleteFast"}
      [] family = "global" /\ usage = "Load" -> {"LoadGlobal"}
      [] family = "global" /\ usage = "Store" -> {"StoreGlobal"}
      [] family = "global" /\ usage = "Delete" -> {"DeleteGlobal"}
      [] family = "name" /\ usage = "Load" -> {"LoadNameAny"}
      [] family = "name" /\ usage = "Store" -> {"StoreLocal"}
      [] family = "name" /\ usage = "Delete" -> {"DeleteLocal"}
      [] family = "deref" /\ usage = "Load" -> {"LoadDeref", "LoadClassDeref"}
      [] family = "deref" /\ usage = "Store" -> {"StoreDeref"}
      [] family = "deref" /\ usage = "Delete" -> {"DeleteDeref"}

\* the table of the code unit a family's instructions index
FamilyTable(info, family) ==
    CASE family = "fast" -> info.varname_cache
      [] family \in {"global", "name"} -> info.name_cache
      [] family = "deref" -> info.cellvar_cache \o info.freevar_cache

\* the uses that emit a name instruction: all but the loads of `__debug__`
NameUses(uses) == SelectSeq(uses, LAMBDA use : use.id # "__debug__")

\* C2: for every identifier use (load, store or delete) and every symbol
\* classification, compile_name selects the instruction family by the rule
\* table: a Local symbol inside a function body uses fast-local instructions
\* indexed into the fast-locals table; a GlobalExplicit symbol always uses
\* global instructions; a GlobalImplicit or Unknown symbol uses global
\* instructions only inside a function body and otherwise (module or class
\* body, including a class body nested in a function) uses the dynamic name
\* instructions LoadNameAny/StoreLocal/DeleteLocal; Free and Cell symbols use
\* deref instructions.
C2_RuleTable ==
    ~Failed(compiler) =>
        LET info == current_code_info(compiler)
            emitted == SelectSeq(info.blocks[1].instructions,
                                 LAMBDA ins : ins.op # "LoadConst")
            uses == NameUses(pc.uses)
            table == Last(compiler.symbol_table_stack)
        IN /\ Len(emitted) = Len(uses)
           /\ \A i \in 1..Len(uses) :
                 LET family == RuleFamily(lookup(table, uses[i].id).scope,
                                          in_func(compiler.ctx))
                 IN /\ emitted[i].op \in FamilyOps(family, uses[i].usage)
                    /\ emitted[i].arg < Len(FamilyTable(info, family))
                    /\ FamilyTable(info, family)[emitted[i].arg + 1] = uses[i].id

\* in a class body nested in a function, an implicit global is stored with
\* StoreLocal and then a local is loaded with LoadNameAny
C2_Witness ==
    /\ input.kind = "class in function"
    /\ pc.uses = <<[id |-> "gi", usage |-> "Store"], [id |-> "l", usage |-> "Load"]>>
    /\ current_code_info(compiler).blocks[1].instructions =
          <<InstructionInfo("StoreLocal", 0, NULL, ""),
            InstructionInfo("LoadNameAny", 1, NULL, "")>>

(***************************************************************************)
(* The constant pool on its own: up to MaxLoads constant references are    *)
(* emitted into the module's code unit.                                    *)
(***************************************************************************)
PoolConstants ==
    {ConstNone, ConstBoolean(TRUE), ConstInteger(1), ConstInteger(0),
     ConstStr("a"), ConstTuple(<<ConstInteger(1)>>)}

PoolInit ==
    /\ input \in [opts : {CompileOpts(o) : o \in OptimizeLevels}]
    /\ compiler = new(input.opts, "<module>")
    /\ pc = [loads |-> <<>>]
    /\ code = None
    /\ frame = IdleFrame

LoadConstant ==
    /\ Len(pc.loads) < MaxLoads
    /\ \E constant \in PoolConstants :
          /\ compiler' = self_emit_load_const(compiler, constant)
          /\ pc' = [pc EXCEPT !.loads = Append(@, constant)]
    /\ UNCHANGED <<input, code, frame>>

ReturnConstant ==
    /\ Len(pc.loads) < MaxLoads
    /\ \E constant \in PoolConstants :
          /\ compiler' = self_emit_return_const(compiler, constant)
          /\ pc' = [pc EXCEPT !.loads = Append(@, constant)]
    /\ UNCHANGED <<input, code, frame>>

PoolNext == LoadConstant \/ ReturnConstant

SpecPool == PoolInit /\ [][PoolNext]_vars

\* C4: within one code unit, two references to equal constants resolve to
\* the same constant-pool index, two references to different constants to
\* different indices, and adding a constant that is already present leaves
\* the pool as it was: the pool holds each referenced constant once.
C4_ConstantPool ==
    LET info == current_code_info(compiler)
        emitted == info.blocks[1].instructions
    IN /\ Len(emitted) = Len(pc.loads)
       /\ \A i \in 1..Len(emitted) :
             /\ emitted[i].op \in {"LoadConst", "ReturnConst"}
             /\ emitted[i].arg < Len(info.constants)
             /\ info.constants[emitted[i].arg + 1] = pc.loads[i]
       /\ \A i, j \in 1..Len(emitted) :
             (pc.loads[i] = pc.loads[j]) <=> (emitted[i].arg = emitted[j].arg)
       /\ Len(info.constants) = Cardinality(Range(pc.loads))

\* the integer 1 is referenced, then the tuple (1,), then the integer 1
\* again: the pool holds two constants and the third reference reuses index 0
C4_Witness ==
    /\ pc.loads = <<ConstInteger(1), ConstTuple(<<ConstInteger(1)>>), ConstInteger(1)>>
    /\ current_code_info(compiler).constants =
          <<ConstInteger(1), ConstTuple(<<ConstInteger(1)>>)>>
    /\ current_code_info(compiler).blocks[1].instructions[3].arg = 0

(***************************************************************************)
(* contains_await on its own: it is applied to one expression of a family  *)
(* that fills the slots of every expression form with a plain name or an   *)
(* await.                                                                  *)
(***************************************************************************)
Plain == ExprName("x")
Awaited == ExprAwait(ExprName("y"))
Slot == {Plain, Awaited}
OptSlot == {None, Some(Plain), Some(Awaited)}

Generators(iter, cond) == <<Comprehension(ExprName("t"), iter, <<cond>>, FALSE)>>

FStringForms ==
    {ExprFString(<<FStringLiteralElement("s")>>)}
    \cup {ExprFString(<<FStringLiteralElement("s"), FStringExpressionElement(a, <<>>)>>) :
             a \in Slot}
    \cup {ExprFString(<<FStringExpressionElement(
                           a, <<(<<FStringLiteralElement("s"),
                                   FStringExpressionElement(b, <<>>)>>)>>)>>) :
             a \in Slot, b \in Slot}
    \cup {ExprFString(<<FStringExpressionElement(
                           Plain, <<(<<FStringExpressionElement(
                                         Plain, <<(<<FStringExpressionElement(a, <<>>)>>)>>)>>)>>)>>) :
             a \in Slot}

FlatForms ==
    Slot
    \cup {ExprNumberLiteral(1), ExprStringLiteral("s"), ExprBooleanLiteral(TRUE),
          ExprNoneLiteral, ExprEllipsisLiteral, ExprYield(None)}
    \cup {ExprUnaryOp("Not", a) : a \in Slot}
    \cup {ExprAttribute(a, "f") : a \in Slot}
    \cup {ExprStarred(a) : a \in Slot}
    \cup {ExprYieldFrom(a) : a \in Slot}
    \cup {ExprYield(Some(a)) : a \in Slot}
    \cup {ExprLambda(None, a) : a \in Slot}
    \cup {ExprBinOp(a, "Add", b) : a \in Slot, b \in Slot}
    \cup {ExprBoolOp("And", <<a, b>>) : a \in Slot, b \in Slot}
    \cup {ExprSubscript(a, b) : a \in Slot, b \in Slot}
    \cup {ExprCompare(a, <<"Lt">>, <<b>>) : a \in Slot, b \in Slot}
    \cup {ExprNamed(a, b) : a \in Slot, b \in Slot}
    \cup {ExprList(<<a, b>>) : a \in Slot, b \in Slot}
    \cup {ExprTuple(<<a, b>>) : a \in Slot, b \in Slot}
    \cup {ExprSet(<<a, b>>) : a \in Slot, b \in Slot}
    \cup {ExprIf(a, b, d) : a \in Slot, b \in Slot, d \in Slot}
    \cup {ExprCall(a, Arguments(<<b>>, <<Keyword(Some("kw"), d)>>)) :
             a \in Slot, b \in Slot, d \in Slot}
    \cup {ExprSlice(a, b, d) : a \in OptSlot, b \in OptSlot, d \in OptSlot}
    \cup {ExprDict(<<DictItem(a, b)>>) : a \in OptSlot, b \in Slot}
    \cup {ExprListComp(a, Generators(b, d)) : a \in Slot, b \in Slot, d \in Slot}
    \cup {ExprSetComp(a, Generators(b, d)) : a \in Slot, b \in Slot, d \in Slot}
    \cup {ExprGenerator(a, Generators(b, d)) : a \in Slot, b \in Slot, d \in Slot}
    \cup UNION {{ExprDictComp(a, b, Generators(d, e)) : a \in Slot, b \in Slot} :
                   d \in Slot, e \in Slot}
    \cup FStringForms

AwaitExprs == FlatForms \cup {ExprSubscript(Plain, a) : a \in FlatForms}

AwaitInit ==
    /\ input \in AwaitExprs
    /\ compiler = new(CompileOpts(0), "<module>")
    /\ pc = "start"
    /\ code = None
    /\ frame = IdleFrame

ContainsAwait ==
    /\ pc = "start"
    /\ pc' = "done"
    /\ frame' = [status |-> "checked", result |-> contains_await(input)]
    /\ UNCHANGED <<input, compiler, code>>

AwaitNext == ContainsAwait

SpecAwait == AwaitInit /\ [][AwaitNext]_vars

\* The expressions directly below a node of the tree, every field included.
RECURSIVE element_exprs(_)
element_exprs(element) ==
    IF element.k = "Literal" THEN <<>>
    ELSE <<element.expression>>
         \o Flatten([s \in 1..Len(element.format_spec) |->
               Flatten([i \in 1..Len(element.format_spec[s]) |->
                  element_exprs(element.format_spec[s][i])])])

generator_exprs(generators) ==
    Flatten([i \in 1..Len(generators) |->
       <<generators[i].target, generators[i].iter>> \o generators[i].ifs])

children(e) ==
    CASE e.k = "Call" ->
           <<e.func>> \o e.arguments.args
           \o [i \in 1..Len(e.arguments.keywords) |-> e.arguments.keywords[i].value]
      [] e.k = "BoolOp" -> e.values
      [] e.k = "BinOp" -> <<e.left, e.right>>
      [] e.k = "Subscript" -> <<e.value, e.slice>>
      [] e.k = "UnaryOp" -> <<e.operand>>
      [] e.k \in {"Attribute", "YieldFrom", "Starred", "Await"} -> <<e.value>>
      [] e.k = "Compare" -> <<e.left>> \o e.comparators
      [] e.k \in {"List", "Tuple", "Set"} -> e.elts
      [] e.k = "Dict" ->
           Flatten([i \in 1..Len(e.items) |-> e.items[i].key \o <<e.items[i].value>>])
      [] e.k = "Slice" -> e.lower \o e.upper \o e.step
      [] e.k = "Yield" -> e.value
      [] e.k = "Lambda" -> <<e.body>>
      [] e.k \in {"ListComp", "SetComp", "Generator"} ->
           <<e.elt>> \o generator_exprs(e.generators)
      [] e.k = "DictComp" -> <<e.key, e.value>> \o generator_exprs(e.generators)
      [] e.k = "If" -> <<e.test, e.body, e.orelse>>
      [] e.k = "Named" -> <<e.target, e.value>>
      [] e.k = "FString" ->
           Flatten([i \in 1..Len(e.elements) |-> element_exprs(e.elements[i])])
      [] OTHER -> <<>>

\* an await expression occurs somewhere inside the expression tree
RECURSIVE has_await(_)
has_await(e) ==
    e.k = "Await" \/ \E i \in 1..Len(children(e)) : has_await(children(e)[i])

\* C8: contains_await(e) returns true exactly when an await expression
\* occurs somewhere inside the expression tree e, including inside f-string
\* replacement fields and their nested format specs and inside every
\* sub-expression of container displays, calls and comprehensions, and false
\* when e contains no await.
C8_AsStated == pc = "done" => (frame.result = has_await(input))

(***************************************************************************)
(* Two compile runs over one input.  Each run has its own Compiler, made   *)
(* by its own call of compile_program with its own copy of the symbol      *)
(* table; the steps of the two runs interleave in any order.               *)
(***************************************************************************)
Runs == {1, 2}

TwoInit ==
    /\ input \in [program : Programs, opts : {CompileOpts(o) : o \in OptimizeLevels}]
    /\ compiler = [r \in Runs |-> None]
    /\ pc = [r \in Runs |-> [phase |-> "begin", next |-> 1, size_before |-> 0]]
    /\ code = [r \in Runs |-> None]
    /\ frame = IdleFrame

TwoBegin ==
    \E r \in Runs :
        /\ pc[r].phase = "begin"
        /\ LET c0 == new(input.opts, "<module>")
           IN /\ compiler' = [compiler EXCEPT ![r] =
                    Some(self_compile_program_begin(c0, input.program.body,
                                                    scan_program(input.program.body)))]
              /\ pc' = [pc EXCEPT ![r].phase = "body",
                                  ![r].size_before = Len(c0.code_stack)]
        /\ UNCHANGED <<input, code, frame>>

TwoStatement ==
    \E r \in Runs :
        /\ pc[r].phase = "body"
        /\ pc[r].next <= Len(statements_of(input))
        /\ compiler' = [compiler EXCEPT ![r] =
              Some(self_compile_statement(compiler[r][1], statements_of(input)[pc[r].next]))]
        /\ pc' = IF Failed(compiler'[r][1]) THEN [pc EXCEPT ![r].phase = "failed"]
                 ELSE [pc EXCEPT ![r].next = @ + 1]
        /\ UNCHANGED <<input, code, frame>>

TwoFinish ==
    \E r \in Runs :
        /\ pc[r].phase = "body"
        /\ pc[r].next > Len(statements_of(input))
        /\ LET popped == self_pop_code_object(
                             self_compile_program_end(compiler[r][1], pc[r].size_before))
           IN /\ compiler' = [compiler EXCEPT ![r] = Some(popped.c)]
              /\ code' = [code EXCEPT ![r] = popped.code]
              /\ pc' = [pc EXCEPT ![r].phase = IF Failed(popped.c) THEN "failed" ELSE "done"]
        /\ UNCHANGED <<input, frame>>

TwoNext == TwoBegin \/ TwoStatement \/ TwoFinish

SpecTwoRuns == TwoInit /\ [][TwoNext]_vars

Not(e) == ExprUnaryOp("Not", e)

JumpExprs ==
    LET a == Name("a")
        b == Name("b")
        d == Name("d")
    IN {a, Not(a), Not(Not(a)),
        ExprBoolOp("And", <<a, b>>), ExprBoolOp("Or", <<a, b>>),
        ExprBoolOp("And", <<a, b, d>>), ExprBoolOp("Or", <<a, b, d>>),
        Not(ExprBoolOp("And", <<a, b>>)), Not(ExprBoolOp("Or", <<a, b>>)),
        ExprBoolOp("And", <<Not(a), b>>), ExprBoolOp("Or", <<a, Not(b)>>),
        ExprBoolOp("Or", <<ExprBoolOp("And", <<a, b>>), d>>),
        ExprBoolOp("And", <<ExprBoolOp("Or", <<a, b>>), d>>),
        ExprBoolOp("And", <<a, ExprBoolOp("Or", <<b, d>>)>>),
        ExprBoolOp("Or", <<a, ExprBoolOp("And", <<b, d>>)>>),
        Not(ExprBoolOp("Or", <<a, ExprBoolOp("And", <<Not(b), d>>)>>)),
        ExprBoolOp("And", <<Not(ExprBoolOp("Or", <<a, b>>)), Not(d)>>)}

JumpEnvs ==
    {[n \in {"a", "b", "d", "fell", "jumped"} |->
         VObject(n, IF n \in DOMAIN truth THEN truth[n] ELSE TRUE)] :
        truth \in [{"a", "b", "d"} -> BOOLEAN]}

\* the names the unit uses, for its symbol table
JumpBody(expression) == <<StmtExpr(expression), Mark("fell"), Mark("jumped")>>

JumpInit ==
    /\ input \in [expression : JumpExprs, condition : BOOLEAN, env : JumpEnvs]
    /\ compiler = new(CompileOpts(0), "<module>")
    /\ pc = [phase |-> "begin", target |-> NULL, size_before |-> 0]
    /\ code = None
    /\ frame = IdleFrame

\* the unit is entered and the target block is made
JumpBegin ==
    /\ pc.phase = "begin"
    /\ \E body \in {JumpBody(input.expression)} :
          \E nb \in {self_new_block(
                         self_compile_program_begin(compiler, body, scan_program(body)))} :
             /\ compiler' = nb.c
             /\ pc' = [phase |-> "jump", target |-> nb.idx,
                       size_before |-> Len(compiler.code_stack)]
    /\ UNCHANGED <<input, code, frame>>

\* self.compile_jump_if(expression, condition, target_block)
JumpLower ==
    /\ pc.phase = "jump"
    /\ compiler' = self_compile_jump_if(compiler, input.expression, input.condition,
                                        pc.target)
    /\ pc' = [pc EXCEPT !.phase = IF Failed(compiler') THEN "failed" ELSE "lowered"]
    /\ UNCHANGED <<input, code, frame>>

\* what follows the jump, and the target block
JumpLand ==
    /\ pc.phase = "lowered"
    /\ \E c1 \in {self_compile_statement(compiler, Mark("fell"))} :
          \E c2 \in {self_switch_to_block(self_emit_return_const(c1, ConstNone),
                                          pc.target)} :
             compiler' = self_compile_statement(c2, Mark("jumped"))
    /\ pc' = [pc EXCEPT !.phase = IF Failed(compiler') THEN "failed" ELSE "body"]
    /\ UNCHANGED <<input, code, frame>>

JumpFinish ==
    /\ pc.phase = "body"
    /\ \E popped \in {self_pop_code_object(
                          self_compile_program_end(compiler, pc.size_before))} :
          /\ compiler' = popped.c
          /\ code' = popped.code
          /\ pc' = [pc EXCEPT !.phase = IF Failed(popped.c) THEN "failed" ELSE "done"]
    /\ UNCHANGED <<input, frame>>

JumpRun ==
    /\ pc.phase = "done"
    /\ frame.status = "idle"
    /\ frame' = NewFrame(code[1], input.env)
    /\ UNCHANGED <<input, compiler, pc, code>>

JumpStep ==
    /\ frame.status = "running"
    /\ frame.steps < MaxSteps
    /\ frame' = IF frame.lasti < Len(frame.co.instructions)
                THEN execute_instruction(frame, frame.co.instructions[frame.lasti + 1])
                ELSE fatal(frame, "no instruction")
    /\ UNCHANGED <<input, compiler, pc, code>>

JumpNext == JumpBegin \/ JumpLower \/ JumpLand \/ JumpFinish \/ JumpRun \/ JumpStep

SpecJumpIf == JumpInit /\ [][JumpNext]_vars

\* What Python gives for a test: its truth value and the names evaluated, in
\* order.
RECURSIVE py_test(_, _), py_test_values(_, _, _)
py_test(e, env) ==
    CASE e.k = "Name" -> [truth |-> truthy(env[e.id]), trace |-> <<[id |-> e.id]>>]
      [] e.k = "UnaryOp" ->
           LET r == py_test(e.operand, env)
           IN [truth |-> ~r.truth, trace |-> r.trace]
      [] e.k = "BoolOp" -> py_test_values(e.op, e.values, env)

py_test_values(op, values, env) ==
    LET first == py_test(Head(values), env)
    IN IF \/ Len(values) = 1
          \/ op = "And" /\ ~first.truth
          \/ op = "Or" /\ first.truth
       THEN first
       ELSE LET rest == py_test_values(op, Tail(values), env)
            IN [truth |-> rest.truth, trace |-> first.trace \o rest.trace]

RECURSIVE leaves(_)
leaves(e) ==
    CASE e.k = "Name" -> <<e.id>>
      [] e.k = "UnaryOp" -> leaves(e.operand)
      [] e.k = "BoolOp" -> Flatten([i \in 1..Len(e.values) |-> leaves(e.values[i])])

\* the run as Python has it: the leaves of the test, then the name of the
\* place control went to
JumpTrace ==
    LET ref == py_test(input.expression, input.env)
    IN ref.trace \o <<[id |-> IF ref.truth = input.condition THEN "jumped" ELSE "fell"]>>

\* the frame is about to load `fell` or `jumped`
AtLanding ==
    /\ frame.status = "running"
    /\ frame.lasti < Len(frame.co.instructions)
    /\ decode(frame.co, frame.co.instructions[frame.lasti + 1]) \in
          {[op |-> "LoadNameAny", id |-> "fell"], [op |-> "LoadNameAny", id |-> "jumped"]}

\* the instructions of a block are leaf loads, each followed by a conditional
\* jump
LeafJumps(info, instructions) ==
    /\ Len(instructions) % 2 = 0
    /\ \A i \in 1..Len(instructions) :
          IF i % 2 = 1
          THEN /\ instructions[i].op = "LoadNameAny"
               /\ info.name_cache[instructions[i].arg + 1] \in {"a", "b", "d"}
          ELSE /\ instructions[i].op \in {"JumpIfTrue", "JumpIfFalse"}
               /\ instructions[i].target # NULL

JumpLowered == pc.phase = "lowered"

\* C19: for every test built from `and`, `or` and `not` over leaves and for
\* both conditions, the code of compile_jump_if(expr, condition, target) goes
\* to `target` exactly when the truth value of expr equals `condition` and
\* falls through otherwise, evaluates the leaves from left to right with
\* short-circuiting, leaves the stack as deep as it was, and materializes the
\* value of no `and`/`or`/`not` node: it emits only leaf evaluations, each
\* followed by JumpIfTrue or JumpIfFalse.
C19_JumpIf ==
    /\ pc.phase # "failed"
    /\ JumpLowered =>
          LET info == current_code_info(compiler)
          IN /\ \A b \in 1..Len(info.blocks) : LeafJumps(info, info.blocks[b].instructions)
             /\ Sum([b \in 1..Len(info.blocks) |-> Len(info.blocks[b].instructions)])
                   = 2 * Len(leaves(input.expression))
    /\ frame.status \notin {"raised", "fatal"}
    /\ frame.status = "running" =>
          /\ IsPrefix(frame.trace, JumpTrace)
          /\ frame.steps < MaxSteps
          /\ Len(frame.stack) <= 1
    /\ AtLanding => frame.stack = <<>> /\ frame.trace = Front(JumpTrace)
    /\ frame.status = "returned" => frame.trace = JumpTrace

\* the jump was taken over a `not`: `not (a or (not b and d))` with a false,
\* b true, lowered for condition TRUE, has run to `jumped` after a and b
C19_Witness ==
    /\ input.expression.k = "UnaryOp"
    /\ input.expression.operand.k = "BoolOp"
    /\ input.condition
    /\ frame.status = "returned"
    /\ frame.trace = <<[id |-> "a"], [id |-> "b"], [id |-> "jumped"]>>

\* a test has fallen through after a short circuit
C19_FellThrough ==
    /\ input.expression = ExprBoolOp("Or", <<Name("a"), ExprBoolOp("And", <<Name("b"), Name("d")>>)>>)
    /\ ~input.condition
    /\ frame.status = "returned"
    /\ frame.trace = <<[id |-> "a"], [id |-> "fell"]>>

(***************************************************************************)
(* Match statements that run.  `match s: ...` with straight-line case      *)
(* bodies, each loading the name of its case, followed by a load of        *)
(* `after`; the module is compiled and run with each subject value.        *)
(***************************************************************************)
CaseMark(i) == CASE i = 1 -> "b1" [] i = 2 -> "b2" [] i = 3 -> "b3"

Cases(patterns) ==
    [i \in 1..Len(patterns) |-> MatchCase(patterns[i], None, <<Mark(CaseMark(i))>>)]

ValueOnlyPatterns ==
    {<<ValuePattern(1)>>, <<ValuePattern(1), ValuePattern(2)>>,
     <<ValuePattern(0), ValuePattern(1)>>,
     <<ValuePattern(2), ValuePattern(0), ValuePattern(1)>>}

AsPattern(i, id) == PatternMatchAs(Some(ValuePattern(i)), Some(id))

CapturingPatterns ==
    {<<CapturePattern("x")>>, <<ValuePattern(1), CapturePattern("x")>>,
     <<ValuePattern(1), ValuePattern(2), CapturePattern("x")>>,
     <<ValuePattern(1), WildcardPattern>>,
     <<AsPattern(1, "x")>>, <<AsPattern(1, "x"), ValuePattern(2)>>,
     <<ValuePattern(0), AsPattern(2, "x")>>}

Subjects == {ConstInteger(0), ConstInteger(1), ConstInteger(2)}

MatchEnv(subject) ==
    [n \in {"s", "b1", "b2", "b3", "after"} |->
        IF n = "s" THEN subject ELSE VObject(n, TRUE)]

MatchRuns ==
    {Program(<<StmtMatch(Name("s"), Cases(patterns)), Mark("after")>>, "module",
             MatchEnv(subject)) :
        patterns \in ValueOnlyPatterns \cup CapturingPatterns, subject \in Subjects}

MatchInit ==
    /\ input \in [program : MatchRuns, opts : {CompileOpts(0)}]
    /\ compiler = new(input.opts, "<module>")
    /\ pc = [phase |-> "begin", next |-> 1, size_before |-> 0]
    /\ code = None
    /\ frame = IdleFrame

SpecMatch == MatchInit /\ [][Next]_vars

\* What Python gives for a pattern and a subject: whether it matches.
RECURSIVE py_match(_, _)
py_match(pattern, subject) ==
    CASE pattern.k = "MatchValue" -> subject = ConstInteger(pattern.value.value)
      [] pattern.k = "MatchAs" ->
           pattern.pattern = None \/ py_match(pattern.pattern[1], subject)

MatchCases == input.program.body[1].cases
Subject == input.program.env["s"]

\* the first case Python takes, or 0
FirstMatch ==
    IF \E i \in 1..Len(MatchCases) : py_match(MatchCases[i].pattern, Subject)
    THEN CHOOSE i \in 1..Len(MatchCases) :
            /\ py_match(MatchCases[i].pattern, Subject)
            /\ \A j \in 1..(i - 1) : ~py_match(MatchCases[j].pattern, Subject)
    ELSE 0

\* the body of case i has been entered
Entered(i) == [id |-> CaseMark(i)] \in Range(frame.trace)

\* the offsets the pattern jumps of the cases go to: the entry of the next
\* case, and for the last case the end block
PatternJumps(co) == SelectSeq(co.instructions, LAMBDA ins : ins.op = "JumpIfFalse")

\* the frame stands at the entry of case i, i > 1
AtCaseEntry(i) ==
    /\ frame.status = "running"
    /\ frame.lasti = PatternJumps(frame.co)[i - 1].arg

\* the frame stands at the end block of the match statement
AtEnd ==
    /\ frame.status = "running"
    /\ frame.lasti = Last(PatternJumps(frame.co)).arg

\* the match statement has been lowered and nothing after it
MatchLowered == pc.phase = "body" /\ pc.next = 2

SubjectOnce == pc.phase = "done" => loads_of(code[1], "s") = 1

\* block i of the unit is the entry block of case i: every case but the last
\* starts with Duplicate
DuplicatePerCase ==
    MatchLowered =>
        LET info == current_code_info(compiler)
        IN \A i \in 1..(Len(MatchCases) - 1) :
              /\ info.blocks[i + 1].instructions # <<>>
              /\ info.blocks[i + 1].instructions[1].op = "Duplicate"

MismatchGoesOn ==
    /\ \A i \in 1..Len(MatchCases) :
          (frame.status # "idle" /\ Entered(i)) => py_match(MatchCases[i].pattern, Subject)
    /\ \A i \in 2..Len(MatchCases) : AtCaseEntry(i) => frame.stack = <<Subject>>

\* C21: in the code of a match statement the subject is evaluated exactly
\* once; every case but the last starts by duplicating the subject; and when
\* the pattern of a case does not match, control goes to the entry block of
\* the next case (for the last case to the end block) with exactly one copy
\* of the subject on the stack for the next case.
C21_AsStated == SubjectOnce /\ DuplicatePerCase /\ MismatchGoesOn

AllValues == \A i \in 1..Len(MatchCases) : MatchCases[i].pattern.k = "MatchValue"

\* With value patterns alone the cases are tried as Python tries them.
C21_ValuePatterns ==
    /\ SubjectOnce
    /\ DuplicatePerCase
    /\ AllValues => MismatchGoesOn
    /\ (AllValues /\ frame.status = "returned") =>
          \A i \in 1..Len(MatchCases) : Entered(i) <=> FirstMatch = i

\* `case 1 as x` has taken the subject 2
C21_AsTakesMismatch ==
    /\ MatchCases[1].pattern = AsPattern(1, "x")
    /\ Subject = ConstInteger(2)
    /\ frame.status = "returned"
    /\ Entered(1)

\* the second of three value cases has matched after the first did not
C21_SecondCaseTaken ==
    /\ AllValues
    /\ Len(MatchCases) = 3
    /\ frame.status = "returned"
    /\ Entered(2)

\* C22: after the code of a match statement has run, through whichever case
\* matched or through none, the stack at the end block of the statement is as
\* deep as before the statement: the subject and all its duplicates have been
\* consumed on every path.
C22_AsStated == AtEnd => frame.stack = <<>>

\* What is left at the end block is the subject when a case before the last
\* was taken, and nothing when the last case was tried.
C22_SubjectLeftBehind ==
    AtEnd => frame.stack = IF \E i \in 1..(Len(MatchCases) - 1) : Entered(i)
                           THEN <<Subject>> ELSE <<>>

\* the first of two value cases has matched and the end block is reached
\* with the subject on the stack
C22_Unbalanced ==
    /\ AllValues
    /\ AtEnd
    /\ Entered(1)
    /\ Len(MatchCases) > 1
    /\ frame.stack = <<Subject>>

\* the last case was tried and the end block is reached with an empty stack
C22_Balanced ==
    /\ AtEnd
    /\ Entered(Len(MatchCases))
    /\ frame.stack = <<>>

\* the name a pattern binds, if any
CaptureOf(pattern) == IF pattern.k = "MatchAs" THEN pattern.name ELSE None

\* C23: a capture pattern (a bare name, or `<pattern> as name`) where it is
\* permitted binds the subject value itself to the name, and a bare-name
\* capture is irrefutable: the case body runs for every subject value,
\* whatever its truthiness.
C23_AsStated ==
    (frame.status = "returned" /\ FirstMatch # 0
        /\ CaptureOf(MatchCases[FirstMatch].pattern) # None) =>
        /\ Entered(FirstMatch)
        /\ "x" \in DOMAIN frame.locals
        /\ frame.locals["x"] = Subject

\* A bare name is bound to the subject, and its body runs exactly for the
\* subjects that are true; `<value> as name` binds the result of the
\* comparison.
C23_TruthySubjectsOnly ==
    (frame.status = "returned" /\ FirstMatch # 0
        /\ CaptureOf(MatchCases[FirstMatch].pattern) # None) =>
        LET pattern == MatchCases[FirstMatch].pattern
        IN /\ "x" \in DOMAIN frame.locals
           /\ Entered(FirstMatch) <=> truthy(Subject)
           /\ frame.locals["x"] = IF pattern.pattern = None THEN Subject
                                  ELSE ConstBoolean(TRUE)

\* `case x` has skipped its body for the subject 0
C23_FalsySkipped ==
    /\ MatchCases = Cases(<<CapturePattern("x")>>)
    /\ Subject = ConstInteger(0)
    /\ frame.status = "returned"
    /\ ~Entered(1)

\* `case 1 as x` has bound True for the subject 1
C23_BoundComparison ==
    /\ MatchCases[1].pattern = AsPattern(1, "x")
    /\ Subject = ConstInteger(1)
    /\ frame.status = "returned"
    /\ frame.locals["x"] = ConstBoolean(TRUE)

(***************************************************************************)
(* build_closure on its own: a code unit is pushed for a scope with a      *)
(* given symbol table, and the closure of a code object nested in it is    *)
(* built.  The tables are those of a function (cell, free and local        *)
(* names) and of a class body (the cell `__class__`; free names, and names *)
(* bound in the class body that a method takes from around the class,      *)
(* which are Local with FREE_CLASS).                                       *)
(***************************************************************************)
ClosureVars == <<"__class__", "x", "y">>

SymbolKinds == {"Cell", "Free", "FreeClass", "Local", "absent"}

SymbolOfKind(var, kind) ==
    CASE kind = "Cell" -> Symbol(var, "Cell", {})
      [] kind = "Free" -> Symbol(var, "Free", {})
      [] kind = "FreeClass" -> Symbol(var, "Local", {"FREE_CLASS"})
      [] OTHER -> Symbol(var, "Local", {})

EnclosingKinds(typ) ==
    IF typ = "Class"
    THEN {k \in [1..3 -> SymbolKinds] :
             /\ k[1] \in {"Cell", "absent"}
             /\ k[2] # "Cell" /\ k[3] # "Cell"}
    ELSE {k \in [1..3 -> SymbolKinds] :
             /\ k[1] \in {"Free", "absent"}
             /\ k[2] # "FreeClass" /\ k[3] # "FreeClass"}

\* the symbols of the scope, in the order of ClosureVars or in the reverse
EnclosingSymbols(kinds, reversed) ==
    LET order == IF reversed THEN <<3, 2, 1>> ELSE <<1, 2, 3>>
        present == SelectSeq(order, LAMBDA i : kinds[i] # "absent")
    IN [j \in 1..Len(present) |-> SymbolOfKind(ClosureVars[present[j]], kinds[present[j]])]

\* the free variables a nested code object can declare: names the scope
\* around it has as a cell or passes on from around itself, in any order
DeclaredFreevars(kinds) ==
    LET passed == {i \in 1..3 : kinds[i] \in {"Cell", "Free", "FreeClass"}}
    IN {<<>>} \cup {<<ClosureVars[i]>> : i \in passed}
       \cup {<<ClosureVars[p[1]], ClosureVars[p[2]]>> :
                p \in {q \in passed \X passed : q[1] # q[2]}}
       \cup {<<ClosureVars[p[1]], ClosureVars[p[2]], ClosureVars[p[3]]>> :
                p \in {q \in passed \X passed \X passed :
                          q[1] # q[2] /\ q[1] # q[3] /\ q[2] # q[3]}}

ClosureInputs ==
    UNION {UNION {{[typ |-> typ, symbols |-> EnclosingSymbols(kinds, reversed),
                    freevars |-> freevars] :
                      freevars \in DeclaredFreevars(kinds), reversed \in BOOLEAN} :
                  kinds \in EnclosingKinds(typ)} :
           typ \in {"Function", "Class"}}

NestedCode == [obj_name |-> "nested", freevars |-> input.freevars]

ClosureInit ==
    /\ input \in ClosureInputs
    /\ compiler = [new(CompileOpts(0), "<module>") EXCEPT
                      !.symbol_table_stack =
                          <<SymbolTable("Module", <<>>,
                                        <<SymbolTable(input.typ, input.symbols, <<>>)>>)>>]
    /\ pc = [phase |-> "begin"]
    /\ code = None
    /\ frame = IdleFrame

\* the code unit of the scope is pushed with the scope's table
ClosureEnter ==
    /\ pc.phase = "begin"
    /\ compiler' = self_push_output(compiler, {}, 0, 0, 0, "enclosing")
    /\ pc' = [pc EXCEPT !.phase = "entered"]
    /\ UNCHANGED <<input, code, frame>>

ClosureBuild ==
    /\ pc.phase = "entered"
    /\ \E bc \in {self_build_closure(compiler, NestedCode)} :
          /\ compiler' = bc.c
          /\ pc' = [pc EXCEPT !.phase = IF bc.closure THEN "closure" ELSE "no closure"]
    /\ UNCHANGED <<input, code, frame>>

ClosureNext == ClosureEnter \/ ClosureBuild

SpecClosure == ClosureInit /\ [][ClosureNext]_vars

\* the instructions build_closure has emitted
ClosureLoads == current_code_info(compiler).blocks[1].instructions

\* the cell and free variables of the enclosing code unit, as one table
CombinedTable ==
    current_code_info(compiler).cellvar_cache \o current_code_info(compiler).freevar_cache

\* the index that denotes `var` in the enclosing code unit: its position among
\* the cell variables when it is a cell there, and otherwise the number of
\* cell variables plus its position among the free variables
DenotingIndex(var) ==
    LET info == current_code_info(compiler)
    IN IF contains(info.cellvar_cache, var)
       THEN get_index_of(info.cellvar_cache, var)
       ELSE Len(info.cellvar_cache) + get_index_of(info.freevar_cache, var)

ClosureBuilt == pc.phase = "closure" /\ ~Failed(compiler)

\* C28: for every free variable of the nested code object, in its declared
\* order, build_closure emits one LoadClosure whose index denotes that
\* variable in the combined cell/free table of the enclosing code unit (the
\* position among the cells, or the cell count plus the position among the
\* free variables), and then one BuildTuple of that many elements.
C28_AsStated ==
    ClosureBuilt =>
        /\ Len(ClosureLoads) = Len(input.freevars) + 1
        /\ \A i \in 1..Len(input.freevars) :
              /\ ClosureLoads[i].op = "LoadClosure"
              /\ ClosureLoads[i].arg = DenotingIndex(input.freevars[i])
              /\ CombinedTable[ClosureLoads[i].arg + 1] = input.freevars[i]
        /\ ClosureLoads[Len(ClosureLoads)].op = "BuildTuple"
        /\ ClosureLoads[Len(ClosureLoads)].arg = Len(input.freevars)

\* C28, as the code has it: the cell count is added for a variable whose
\* symbol is Free, and not for one that is Local with FREE_CLASS, whose
\* index is the position among the free variables.
C28_OffsetForFreeOnly ==
    ClosureBuilt =>
        /\ Len(ClosureLoads) = Len(input.freevars) + 1
        /\ \A i \in 1..Len(input.freevars) :
              LET var == input.freevars[i]
                  info == current_code_info(compiler)
                  symbol == lookup(Last(compiler.symbol_table_stack), var)
              IN /\ ClosureLoads[i].op = "LoadClosure"
                 /\ ClosureLoads[i].arg =
                        IF "FREE_CLASS" \in symbol.flags
                        THEN get_index_of(info.freevar_cache, var)
                        ELSE DenotingIndex(var)
        /\ ClosureLoads[Len(ClosureLoads)].op = "BuildTuple"
        /\ ClosureLoads[Len(ClosureLoads)].arg = Len(input.freevars)

\* a class body with the cell `__class__` and the name x passed on to a
\* method: the index loaded for x denotes `__class__`
C28_LoadsTheCell ==
    /\ ClosureBuilt
    /\ input.typ = "Class"
    /\ input.freevars = <<"x">>
    /\ CombinedTable = <<"__class__", "x">>
    /\ ClosureLoads[1].op = "LoadClosure"
    /\ CombinedTable[ClosureLoads[1].arg + 1] = "__class__"

\* a function with a cell and a free variable, both passed on: the free
\* variable is loaded with the cell count added
C28_CellAndFree ==
    /\ ClosureBuilt
    /\ input.typ = "Function"
    /\ input.freevars = <<"x", "y">>
    /\ CombinedTable = <<"y", "x">>
    /\ ClosureLoads[1].arg = 1
    /\ ClosureLoads[2].arg = 0
    /\ C28_AsStated

(***************************************************************************)
(* The compile modes: rustpython_codegen::compile::compile_top dispatches  *)
(* on the mode; each mode scans the symbol table, lowers its input into    *)
(* the root code unit and pops the unit.                                   *)
(***************************************************************************)
StatementModes == {"exec", "single", "block"}

\* statement lists without branches: empty, expression statements,
\* assignments, pass, definitions
ModeBodies ==
    {<<>>, <<Mark("x")>>, <<StmtExpr(ExprNumberLiteral(1))>>, <<Assign("y", Name("x"))>>,
     <<StmtPass>>, <<Def("f", <<Mark("m")>>)>>, <<Class("C", <<Mark("m")>>)>>,
     <<Mark("a"), Mark("b")>>, <<Assign("y", Name("x")), Mark("y")>>,
     <<Mark("x"), Assign("y", Name("x"))>>, <<Def("f", <<Mark("m")>>), Class("C", <<Mark("m")>>)>>}

ModeExpressions ==
    {Name("x"), ExprNumberLiteral(1), ExprBinOp(Name("x"), "Add", ExprNumberLiteral(1))}

ModesInit ==
    /\ input \in [mode : StatementModes, body : ModeBodies,
                   opts : {CompileOpts(o) : o \in OptimizeLevels}]
                  \cup [mode : {"eval"}, body : {<<StmtExpr(e)>> : e \in ModeExpressions},
                        opts : {CompileOpts(o) : o \in OptimizeLevels}]
    /\ compiler = new(input.opts, "<module>")
    /\ pc = [phase |-> "begin"]
    /\ code = None
    /\ frame = IdleFrame

\* compile_program
CompileExec ==
    /\ pc.phase = "begin"
    /\ input.mode = "exec"
    /\ \E r \in {compile_module(input.opts, input.body)} :
          /\ compiler' = r.c
          /\ code' = r.code
          /\ pc' = [pc EXCEPT !.phase = IF Failed(r.c) THEN "failed" ELSE "done"]
    /\ UNCHANGED <<input, frame>>

\* what every mode does with the lowered root unit
Popped(c1) ==
    \E r \in {IF Failed(c1) THEN [c |-> c1, code |-> None] ELSE self_pop_code_object(c1)} :
        /\ compiler' = r.c
        /\ code' = r.code
        /\ pc' = [pc EXCEPT !.phase = IF Failed(r.c) THEN "failed" ELSE "done"]

CompileSingle ==
    /\ pc.phase = "begin"
    /\ input.mode = "single"
    /\ Popped(self_compile_program_single(compiler, input.body, scan_program(input.body)))
    /\ UNCHANGED <<input, frame>>

CompileBlockExpr ==
    /\ pc.phase = "begin"
    /\ input.mode = "block"
    /\ Popped(self_compile_block_expr(compiler, input.body, scan_program(input.body)))
    /\ UNCHANGED <<input, frame>>

CompileEval ==
    /\ pc.phase = "begin"
    /\ input.mode = "eval"
    /\ Popped(self_compile_eval(compiler, input.body[1].value, scan_program(input.body)))
    /\ UNCHANGED <<input, frame>>

ModesNext == CompileExec \/ CompileSingle \/ CompileBlockExpr \/ CompileEval

SpecModes == ModesInit /\ [][ModesNext]_vars

\* what an instruction of the root unit adds to the depth of the evaluation
\* stack (a function object is made of its code and its name, no more)
StackEffect(ins) ==
    CASE ins.op \in {"LoadNameAny", "LoadGlobal", "LoadConst", "Duplicate",
                     "LoadBuildClass"} -> 1
      [] ins.op \in {"StoreLocal", "StoreGlobal", "Pop", "PrintExpr", "ReturnValue",
                     "MakeFunction", "BinaryOperation"} -> 0 - 1
      [] ins.op = "CallFunctionPositional" -> 0 - ins.arg
      [] OTHER -> 0

RECURSIVE DepthBefore(_, _)
DepthBefore(co, i) ==
    IF i = 1 THEN 0 ELSE DepthBefore(co, i - 1) + StackEffect(co.instructions[i - 1])

RootCompiled == pc.phase = "done" /\ code # None

\* the root unit ends with a return that has a value: a ReturnConst, or a
\* ReturnValue reached with a value on the stack
ReturnsAValue(co) ==
    /\ co.instructions # <<>>
    /\ LET n == Len(co.instructions)
       IN \/ co.instructions[n].op = "ReturnConst"
          \/ /\ co.instructions[n].op = "ReturnValue"
             /\ DepthBefore(co, n) >= 1

\* C30: in every mode and for every input, the empty statement list
\* included, the root code unit ends by returning exactly one value: its
\* final return is a ReturnConst, or a ReturnValue reached with a value on
\* the evaluation stack.
C30_AsStated == RootCompiled => ReturnsAValue(code[1])

\* C30, as the code has it: every mode but the block-expression mode on an
\* empty statement list, for which the root unit is a ReturnValue alone.
C30_UnlessEmptyBlock ==
    RootCompiled =>
        IF input.mode = "block" /\ input.body = <<>>
        THEN [i \in 1..Len(code[1].instructions) |-> code[1].instructions[i].op]
                = <<"ReturnValue">>
        ELSE ReturnsAValue(code[1])

\* the block-expression mode on an empty statement list: a ReturnValue with
\* nothing on the stack
C30_ReturnsNothing ==
    /\ RootCompiled
    /\ input.mode = "block"
    /\ input.body = <<>>
    /\ code[1].instructions[1].op = "ReturnValue"
    /\ DepthBefore(code[1], 1) = 0

\* the block-expression mode on a definition: the function object is
\* duplicated before it is stored, and returned
C30_DefinitionReturned ==
    /\ RootCompiled
    /\ input.mode = "block"
    /\ input.body = <<Def("f", <<Mark("m")>>)>>
    /\ ReturnsAValue(code[1])
    /\ code[1].instructions[Len(code[1].instructions)].op = "ReturnValue"
    /\ code[1].instructions[Len(code[1].instructions) - 2].op = "Duplicate"

====
